---- MODULE Spec2Model ----
(***************************************************************************)
(* Model of cccpt/cli.py: the command pipeline (configure, build, test,    *)
(* debug, install, tag_for_release) driven through click's ctx.invoke,     *)
(* with the external tools (conan, cmake, git, the test executables, the   *)
(* hooks) as nondeterministic exit codes; main's loading of the            *)
(* configuration files; and the helpers merge, find_files_above and        *)
(* load_environment applied on their own.                                  *)
(*                                                                         *)
(* A path or a string is a sequence of tokens: Path("root")/"x" is         *)
(* <<"root","x">>, and str.find / str.startswith act on the tokens.        *)
(***************************************************************************)
EXTENDS Integers, Sequences, FiniteSets, TLC

VARIABLES
    platform,   \* platform.system()
    obj,        \* ctx.obj: the shared context, key -> path
    fs,         \* the files seen or made in this run: [present, absent]
    stack,      \* the click contexts of the commands being executed
    log,        \* the external steps and the command returns so far, in order
    proc,       \* "init", "running", "exited" or "raised"
    exitCode,   \* the code the process ended with
    cwd,        \* os.getcwd()
    environ,    \* os.environ: name -> value
    conf,       \* main's configuration loading: the files, the merged tree
    call        \* a helper function applied on its own: inputs and result

vars == <<platform, obj, fs, stack, log, proc, exitCode, cwd, environ, conf, call>>

\* ---------------------------------------------------------------- bounds

\* External tools return a code in -MaxCode..MaxCode (negative: killed by a signal).
MaxCode == 1
\* At most MaxHooks pre-release hook scripts are found under the root.
MaxHooks == 1

Codes == (0 - MaxCode)..MaxCode

\* ---------------------------------------------------------------- paths

RootDir == <<"root">>
CliBuildDir == <<"root", "cli-build">>
TmpDir == <<"tmp", "mkdtemp">>
NoPath == <<>>

Lower(s) ==
    CASE s = "Debug" -> "debug"
      [] s = "Release" -> "release"
      [] s = "Linux" -> "linux"
      [] s = "Windows" -> "windows"
      [] OTHER -> s

get_build_type_str(is_release) ==
    IF is_release THEN "Release" ELSE "Debug"

\* root_dir / f"build-{build_type.lower()}-{platform.lower()}"
get_build_dir(is_release, root_dir) ==
    root_dir \o <<"build", Lower(get_build_type_str(is_release)), Lower(platform)>>

ObjGet_Default(key, default) == default

\* ctx.obj.get(key, default)
ObjGet(key, default) ==
    IF key \in DOMAIN obj THEN obj[key] ELSE default

\* What ctx.obj holds for the directories, key by key: <<>> for a key that
\* is not set, else the value in a tuple.
DirKeys ==
    << "/project/root-dir", "/project/build-dir", "/project/conan-dir",
       "/project/cmake-dir" >>

Snapshot(o) ==
    [i \in 1..Len(DirKeys) |->
        IF DirKeys[i] \in DOMAIN o THEN <<o[DirKeys[i]]>> ELSE <<>>]

\* ctx.obj[key] = value
ObjSet(o, key, value) ==
    [k \in DOMAIN o \cup {key} |-> IF k = key THEN value ELSE o[k]]

\* str(s).find(m) > -1
Contains(s, m) ==
    \E i \in 1..(Len(s) - Len(m) + 1) : SubSeq(s, i, i + Len(m) - 1) = m

\* s.startswith(m)
StartsWith(s, m) ==
    Len(m) <= Len(s) /\ SubSeq(s, 1, Len(m)) = m

\* ----------------------------------------------------------- file system

\* The files that may exist when the run starts. Every other path is absent
\* unless the run creates it.
MayExist(p) ==
    \/ p \in { RootDir \o <<"conanfile.txt">>,
               RootDir \o <<"CMakeLists.txt">>,
               RootDir \o <<"version.txt">>,
               RootDir \o <<"testing", "conanfile.py">> }
    \/ /\ Len(p) > 0
       /\ p[Len(p)] = "proj"
    \/ /\ Len(p) > Len(RootDir) + 1
       /\ p[Len(p)] = "compile_commands.json"
    \/ /\ Len(p) > 1
       /\ p[Len(p)] = "CMakeCache.txt"
       /\ SubSeq(p, 1, Len(p) - 1) # TmpDir

Seen == fs.present \cup fs.absent

\* What the file system may turn out to be once the paths ps have been looked at:
\* a path seen before keeps its state, a new one is present or absent.
FsViews(ps) ==
    LET new == {p \in ps : p \notin Seen /\ MayExist(p)}
        gone == {p \in ps : p \notin Seen /\ ~MayExist(p)}
    IN  { [present |-> fs.present \cup S,
           absent |-> fs.absent \cup gone \cup (new \ S)] : S \in SUBSET new }

\* path.exists()
Exists(view, p) == p \in view.present

\* path.mkdir(parents=True, exist_ok=True), and a tool writing the file p
Create(view, p) ==
    [present |-> view.present \cup {p}, absent |-> view.absent \ {p}]

\* ----------------------------------------------------------------- frames

DefaultOpts ==
    [release |-> FALSE, run_configure |-> FALSE, generator |-> FALSE,
     skip_build |-> FALSE, match |-> <<>>, tag |-> <<>>, dirty_ok |-> FALSE,
     dry_run |-> FALSE, strict |-> TRUE, bump_version |-> FALSE,
     remote |-> <<>>]

\* The context click makes for a command: _depth is 2 for the command the
\* dispatcher runs and 1 for a command run through ctx.invoke. ctx is for
\* the record: what ctx.obj held when the command began.
NewFrame(cmd, depth, opts) ==
    [cmd |-> cmd, pc |-> "begin", depth |-> depth, o |-> opts,
     build_dir |-> NoPath, conan_file |-> NoPath, invoked |-> 0, ret |-> 0,
     val |-> 0, found |-> <<>>, digests |-> <<>>, todo |-> <<>>,
     tags |-> {}, output |-> <<>>, version_txt_tag |-> <<>>,
     odir |-> NoPath, ctx |-> <<>>,
     success_remote |-> <<>>, failed_remotes |-> <<>>, base |-> Len(log)]

Top == stack[Len(stack)]

At(cmd, pc) ==
    /\ proc = "running"
    /\ Len(stack) > 0
    /\ Top.cmd = cmd
    /\ Top.pc = pc

SetTop(f) == [stack EXCEPT ![Len(stack)] = f]

\* ctx.invoke(cmd, **opts): the caller waits at its next step.
Invoke(caller, cmd, opts) ==
    Append(SetTop(caller), NewFrame(cmd, 1, opts))

\* return return_or_exit(ctx, val): the frame is left to ReturnOrExit.
Returning(f, val) == [f EXCEPT !.pc = "return", !.val = val]

Ev(e, p, c) == [ev |-> e, path |-> p, code |-> c]

\* ------------------------------------------------------------------- main

\* No variable of interest set, no configuration file found, no helper applied.
NoEnviron == [k \in {} |-> <<>>]
NoConf == [pc |-> "none"]
NoCall == [fn |-> "none"]

Init ==
    /\ platform \in {"Linux", "Windows"}
    /\ obj = [k \in {} |-> NoPath]
    /\ fs = [present |-> {}, absent |-> {}]
    /\ stack = <<>>
    /\ log = <<>>
    /\ proc = "init"
    /\ exitCode = 0
    /\ cwd = RootDir
    /\ environ = NoEnviron
    /\ conf = NoConf
    /\ call = NoCall

\* --match: not given, or a text found in some paths only
Matches == {<<>>, <<"a">>}
\* The tag asked for, and what version.txt may hold: the tag, a prefix of it,
\* something else.
NewTags == {<<"1", "rc">>}
Versions == {<<"1", "rc">>, <<"1">>, <<"2">>}
\* What `git tag` may list, and what `git status --porcelain` may print.
GitTags == {{<<"1">>}, {<<"1">>, <<"1", "rc">>}}
GitStatus == {<<>>, <<"M", "file">>}
\* install --tag: not given, or the tag to check out
InstallTags == {<<>>, <<"1">>}
\* get NAME, and the remotes it may be given: a local directory, the
\* invocation directory itself, a URL with a scheme.
ProjectName == "proj"
Remotes == {"/srv", ".", "https://host"}
RemoteLists ==
    {<<>>} \cup {<<r>> : r \in Remotes}
           \cup {<<r, q>> : r \in Remotes, q \in Remotes}

\* The options click accepts for each command.
OptionSets ==
    [configure |->
        {[DefaultOpts EXCEPT !.release = r, !.generator = g] :
            r \in BOOLEAN, g \in BOOLEAN},
     build |->
        {[DefaultOpts EXCEPT !.release = r, !.run_configure = c] :
            r \in BOOLEAN, c \in BOOLEAN},
     test |->
        {[DefaultOpts EXCEPT !.release = r, !.skip_build = s, !.match = m] :
            r \in BOOLEAN, s \in BOOLEAN, m \in Matches},
     debug |->
        {[DefaultOpts EXCEPT !.match = m] : m \in Matches},
     tag_for_release |->
        {[DefaultOpts EXCEPT !.tag = t, !.dirty_ok = d, !.dry_run = n,
                             !.strict = s, !.bump_version = b] :
            t \in NewTags, d \in BOOLEAN, n \in BOOLEAN, s \in BOOLEAN,
            b \in BOOLEAN},
     install |->
        {[DefaultOpts EXCEPT !.release = r, !.tag = t] :
            r \in BOOLEAN, t \in InstallTags},
     get |->
        {[DefaultOpts EXCEPT !.remote = r] : r \in RemoteLists},
     setup_special_files |-> {DefaultOpts},
     link_compiler_commands |-> {DefaultOpts}]

CommandOpts(cmd) == OptionSets[cmd]

\* The commands of the build pipeline, and those run again and again.
PipelineCommands == {"configure", "build", "test", "debug"}
RerunCommands == {"configure", "setup_special_files", "link_compiler_commands"}

\* main: builds ctx.obj (the root directory, the --build-dir override when
\* given) and dispatches the command named on the command line.
Main(commands) ==
    /\ proc = "init"
    /\ \E cmd \in commands, cli \in BOOLEAN :
         \E opts \in CommandOpts(cmd) :
            LET o1 == IF cli
                      THEN ObjSet(obj, "/project/build-dir", CliBuildDir)
                      ELSE obj
                o2 == ObjSet(o1, "/project/root-dir", RootDir)
            IN  /\ obj' = o2
                /\ stack' = <<NewFrame(cmd, 2, opts)>>
    /\ proc' = "running"
    /\ UNCHANGED <<platform, cwd, environ, conf, call, fs, log, exitCode>>

Outermost_Always(depth) == TRUE

\* if ctx._depth == 2
Outermost(depth) == depth = 2

\* return_or_exit(ctx, val): at depth 2 ctx.exit(val) ends the process, else
\* val is the value of the caller's ctx.invoke.
ReturnOrExit ==
    /\ proc = "running"
    /\ Len(stack) > 0
    /\ Top.pc = "return"
    /\ IF Outermost(Top.depth)
       THEN /\ proc' = "exited"
            /\ exitCode' = Top.val
            /\ log' = Append(log, Ev("exit", <<Top.cmd>>, Top.val))
            /\ UNCHANGED stack
       ELSE /\ stack' = [SubSeq(stack, 1, Len(stack) - 1)
                           EXCEPT ![Len(stack) - 1].invoked = Top.val]
            /\ log' = Append(log, Ev("return", <<Top.cmd>>, Top.val))
            /\ UNCHANGED <<proc, exitCode>>
    /\ UNCHANGED <<platform, cwd, environ, conf, call, obj, fs>>

\* -------------------------------------------------------------- configure

First_LastOnly(chain, view) == chain[Len(chain)]

\* The first path of the chain that exists, else the last path.
First(chain, view) ==
    IF \E i \in 1..Len(chain) : Exists(view, chain[i])
    THEN chain[CHOOSE i \in 1..Len(chain) :
                 /\ Exists(view, chain[i])
                 /\ \A j \in 1..(i - 1) : ~Exists(view, chain[j])]
    ELSE chain[Len(chain)]

\* conan_file: build-dir conanfile.py, build-dir conanfile.txt, conan-dir
\* conanfile.py, conan-dir conanfile.txt; the first that exists.
ManifestChain(build_dir, conan_dir) ==
    << build_dir \o <<"conanfile.py">>, build_dir \o <<"conanfile.txt">>,
       conan_dir \o <<"conanfile.py">>, conan_dir \o <<"conanfile.txt">> >>

ConanFailed_PositiveOnly(code) == code > 0

\* if result.returncode != 0 (the conan install step)
ConanFailed(code) == code # 0

ConfigureBegin ==
    /\ At("configure", "begin")
    /\ LET f == Top
           root_dir == obj["/project/root-dir"]
           build_dir == ObjGet("/project/build-dir",
                               get_build_dir(f.o.release, root_dir))
           conan_dir == ObjGet("/project/conan-dir", root_dir)
           chain == ManifestChain(build_dir, conan_dir)
       IN  \E view \in FsViews({chain[i] : i \in 1..Len(chain)}) :
              LET conan_file == First(chain, view)
              IN  /\ fs' = Create(view, build_dir)
                  /\ stack' = SetTop([f EXCEPT
                        !.build_dir = build_dir,
                        !.conan_file = conan_file,
                        !.pc = IF Exists(view, conan_file)
                               THEN "conan" ELSE "cmake"])
    /\ UNCHANGED <<platform, cwd, environ, conf, call, obj, log, proc, exitCode>>

ConfigureConanInstall ==
    /\ At("configure", "conan")
    /\ \E r \in Codes :
          /\ log' = Append(log, Ev("conan_install", Top.conan_file, r))
          /\ stack' = SetTop(IF ConanFailed(r)
                             THEN Returning(Top, r)
                             ELSE [Top EXCEPT !.pc = "cmake"])
    /\ UNCHANGED <<platform, cwd, environ, conf, call, obj, fs, proc, exitCode>>

\* The generator probe (cmake --help through check_output) runs when no
\* generator was given and raises when cmake fails there. A configure step
\* that succeeds leaves CMakeCache.txt in the build directory.
ConfigureCmake ==
    /\ At("configure", "cmake")
    /\ LET f == Top
           cmake_dir == ObjGet("/project/cmake-dir", obj["/project/root-dir"])
           cmake_file == cmake_dir \o <<"CMakeLists.txt">>
           marker == f.build_dir \o <<"CMakeCache.txt">>
       IN  \E view \in FsViews({cmake_file}) :
              IF ~Exists(view, cmake_file)
              THEN /\ fs' = view
                   /\ stack' = SetTop(Returning(f, 0))
                   /\ UNCHANGED <<log, proc>>
              ELSE \/ /\ ~f.o.generator
                      /\ proc' = "raised"
                      /\ fs' = view
                      /\ UNCHANGED <<log, stack>>
                   \/ \E r \in Codes :
                         /\ log' = log \o
                              << Ev("load_conan_buildinfo", f.build_dir, 0),
                                 Ev("load_conan_environment", f.build_dir, 0),
                                 Ev("cmake_configure", f.build_dir, r) >>
                         /\ fs' = IF r = 0 THEN Create(view, marker) ELSE view
                         /\ stack' = SetTop(Returning(f, r))
                         /\ UNCHANGED proc
    /\ UNCHANGED <<platform, cwd, environ, conf, call, obj, exitCode>>

\* ------------------------------------------------------------------ build

NeedsConfigure_ForcedOnly(run_configure, has_marker) == run_configure

\* if run_configure or not (build_dir/"CMakeCache.txt").exists()
NeedsConfigure(run_configure, has_marker) ==
    run_configure \/ ~has_marker

BuildBegin ==
    /\ At("build", "begin")
    /\ LET f == Top
           root_dir == obj["/project/root-dir"]
           build_dir == ObjGet("/project/build-dir",
                               get_build_dir(f.o.release, root_dir))
           marker == build_dir \o <<"CMakeCache.txt">>
           g == [f EXCEPT !.build_dir = build_dir, !.pc = "cmake"]
       IN  \E view \in FsViews(IF f.o.run_configure THEN {} ELSE {marker}) :
              /\ fs' = view
              /\ IF NeedsConfigure(f.o.run_configure, Exists(view, marker))
                 THEN /\ stack' = Invoke(g, "configure",
                              [DefaultOpts EXCEPT !.release = f.o.release])
                      /\ UNCHANGED log
                 ELSE /\ stack' = SetTop(g)
                      /\ log' = log \o
                           << Ev("load_conan_buildinfo", build_dir, 0),
                              Ev("load_conan_environment", build_dir, 0) >>
    /\ UNCHANGED <<platform, cwd, environ, conf, call, obj, proc, exitCode>>

\* The value of ctx.invoke(configure) is not looked at.
BuildCmake ==
    /\ At("build", "cmake")
    /\ \E r \in Codes :
          /\ log' = Append(log, Ev("cmake_build", Top.build_dir, r))
          /\ stack' = SetTop(Returning(Top, r))
    /\ UNCHANGED <<platform, cwd, environ, conf, call, obj, fs, proc, exitCode>>

\* ------------------------------------------------------- test executables

Contents == {"x", "y"}

\* The file names a build may leave in the build directory.
WindowsTestNames ==
    {<<"a", "Tests", ".exe">>, <<"b", "Tests", "Tester", ".exe">>}
PosixTestNames == {<<"a", "Tests">>, <<"b", "Tests", "Tester">>}
TestNames ==
    IF Lower(platform) = "windows" THEN WindowsTestNames ELSE PosixTestNames

\* On Windows os.access(path, X_OK) holds for every file that exists.
\* The entries a build leaves under these names are regular files.
FileAttrs ==
    [file : {TRUE},
     exe : IF Lower(platform) = "windows" THEN {TRUE} ELSE BOOLEAN,
     content : Contents,
     debug : BOOLEAN]

\* A build directory: the files in it, by name. Contents are named in the
\* order of their first use: "y" is the content of a file that differs from
\* another one holding "x".
Trees ==
    {t \in UNION {[S -> FileAttrs] : S \in SUBSET TestNames} :
        \A n \in DOMAIN t :
           t[n].content = "y" =>
              \E m \in DOMAIN t : Len(m) < Len(n) /\ t[m].content = "x"}

\* The orders in which rglob may list the files.
Orders ==
    {s \in [1..Cardinality(TestNames) -> TestNames] :
        \A n \in TestNames : \E i \in DOMAIN s : s[i] = n}

\* patterns: *Tests*, *Tester*, *unitTest*, *unit_tests* (with .exe on Windows)
Patterns ==
    LET ext == IF Lower(platform) = "windows" THEN ".exe" ELSE ""
        linux == Lower(platform) = "linux"
        windows == Lower(platform) = "windows"
    IN  IF linux \/ windows
        THEN << [tok |-> "Tests", ext |-> ext], [tok |-> "Tester", ext |-> ext],
                [tok |-> "unitTest", ext |-> ext],
                [tok |-> "unit_tests", ext |-> ext] >>
        ELSE <<>>

\* fnmatch of a file name against *tok* or *tok*.exe
FnMatch(name, pat) ==
    \E i \in 1..Len(name) :
       /\ name[i] = pat.tok
       /\ pat.ext = "" \/ (i < Len(name) /\ name[Len(name)] = pat.ext)

is_exe_AnyFile(tree, name) ==
    name \in DOMAIN tree /\ tree[name].file

\* is_exe(path): a file with the executable bit
is_exe(tree, name) ==
    name \in DOMAIN tree /\ tree[name].file /\ tree[name].exe

\* is_debug(path): on Linux, `file` reports "with debug_info"
is_debug(tree, name) ==
    /\ name \in DOMAIN tree
    /\ tree[name].file
    /\ Lower(platform) = "linux"
    /\ tree[name].debug

\* get_list_of_test_executables_in_path(path): for each pattern, the
\* executable files rglob lists for it; then the split by is_debug.
get_list_of_test_executables_in_path(path, tree, order) ==
    LET Hits(k) == SelectSeq(order,
                      LAMBDA n : FnMatch(n, Patterns[k]) /\ is_exe(tree, n))
        Upto[k \in 0..Len(Patterns)] ==
            IF k = 0 THEN <<>> ELSE Upto[k - 1] \o Hits(k)
        executables == Upto[Len(Patterns)]
        File(n) == path \o n
    IN  [all |-> [i \in 1..Len(executables) |-> File(executables[i])],
         release |-> LET r == SelectSeq(executables,
                                 LAMBDA n : ~is_debug(tree, n))
                     IN [i \in 1..Len(r) |-> File(r[i])],
         debug |-> LET d == SelectSeq(executables,
                               LAMBDA n : is_debug(tree, n))
                   IN [i \in 1..Len(d) |-> File(d[i])],
         bytes |-> [i \in 1..Len(executables) |-> tree[executables[i]].content]]

\* The names a directory handed to the scan may hold: those of tests, and
\* one that matches no pattern.
ScanNames == TestNames \cup {<<"main">>}

\* The entries under these names: directories and files, with or without
\* the executable bit, with or without debug information.
ScanAttrs ==
    [file : BOOLEAN,
     exe : IF Lower(platform) = "windows" THEN {TRUE} ELSE BOOLEAN,
     content : {"x"},
     debug : BOOLEAN]

ScanTrees == UNION {[S -> ScanAttrs] : S \in SUBSET ScanNames}

ScanOrders ==
    {s \in [1..Cardinality(ScanNames) -> ScanNames] :
        \A n \in ScanNames : \E i \in DOMAIN s : s[i] = n}

ScanCalls ==
    [fn : {"get_list_of_test_executables_in_path"}, path : {CliBuildDir},
     tree : ScanTrees, order : ScanOrders, done : {FALSE},
     result : {[all |-> <<>>, release |-> <<>>, debug |-> <<>>,
                bytes |-> <<>>]}]

CallScan ==
    /\ call.fn = "get_list_of_test_executables_in_path"
    /\ ~call.done
    /\ call' = [call EXCEPT
          !.done = TRUE,
          !.result = get_list_of_test_executables_in_path(
                         call.path, call.tree, call.order)]
    /\ UNCHANGED <<platform, cwd, environ, conf, obj, fs, stack, log, proc,
                   exitCode>>

\* f.read_bytes() for each of files, which lie in the directory path
ReadBytes(path, tree, files) ==
    [i \in 1..Len(files) |->
        tree[SubSeq(files[i], Len(path) + 1, Len(files[i]))].content]

\* {md5(f.read_bytes()): f for f in tests_to_run}.values(): one entry per
\* content, in the order the contents first appear, each holding the last
\* file with that content.
Dedup(files, digests) ==
    LET n == Len(files)
        firsts == {i \in 1..n : \A j \in 1..(i - 1) : digests[j] # digests[i]}
        Kth(k) == CHOOSE i \in firsts :
                     Cardinality({j \in firsts : j < i}) = k - 1
        LastOf(i) == CHOOSE j \in 1..n :
                        /\ digests[j] = digests[i]
                        /\ \A m \in (j + 1)..n : digests[m] # digests[i]
    IN  [k \in 1..Cardinality(firsts) |-> files[LastOf(Kth(k))]]

\* if not match or str(file).find(match) > -1
Selected(match, file) ==
    match = <<>> \/ Contains(file, match)

Abs_Identity(code) == code

\* abs(result.returncode)
Abs(code) == IF code < 0 THEN 0 - code ELSE code

\* ------------------------------------------------------------------- test

BuildFailed_PositiveOnly(ret) == ret > 0

\* if ret != 0 after ctx.invoke(build)
BuildFailed(ret) == ret # 0

NoTests_Never(tests_to_run) == Len(tests_to_run) < 0

\* if len(tests_to_run) < 1
NoTests(tests_to_run) == Len(tests_to_run) < 1

TestBegin ==
    /\ At("test", "begin")
    /\ LET f == Top
           dirs == << RootDir \o <<"testing">>, RootDir \o <<"tests">> >>
           Files(d) == {d \o <<"conanfile.txt">>, d \o <<"conanfile.py">>}
       IN  IF f.o.skip_build
           THEN /\ stack' = SetTop([f EXCEPT !.pc = "scan",
                                             !.ctx = Snapshot(obj)])
                /\ UNCHANGED <<obj, fs>>
           ELSE \E view \in FsViews(Files(dirs[1]) \cup Files(dirs[2])) :
                   LET Has(d) == \E p \in Files(d) : Exists(view, p)
                   IN  /\ fs' = view
                       /\ obj' = IF Has(dirs[1])
                                 THEN ObjSet(obj, "/project/conan-dir", dirs[1])
                                 ELSE IF Has(dirs[2])
                                 THEN ObjSet(obj, "/project/conan-dir", dirs[2])
                                 ELSE obj
                       /\ stack' = Invoke([f EXCEPT !.pc = "after_build",
                                                    !.ctx = Snapshot(obj)],
                                     "build",
                                     [DefaultOpts EXCEPT !.release = f.o.release])
    /\ UNCHANGED <<platform, cwd, environ, conf, call, log, proc, exitCode>>

TestAfterBuild ==
    /\ At("test", "after_build")
    /\ stack' = SetTop(IF BuildFailed(Top.invoked)
                       THEN Returning(Top, Top.invoked)
                       ELSE [Top EXCEPT !.pc = "scan"])
    /\ UNCHANGED <<platform, cwd, environ, conf, call, obj, fs, log, proc, exitCode>>

TestScan ==
    /\ At("test", "scan")
    /\ LET f == Top
           root_dir == obj["/project/root-dir"]
           build_dir == ObjGet("/project/build-dir",
                               get_build_dir(f.o.release, root_dir))
       IN  \E tree \in Trees, order \in Orders :
              LET test_executables ==
                      get_list_of_test_executables_in_path(build_dir, tree, order)
                  tests_to_run == test_executables.all
                  g == [f EXCEPT !.build_dir = build_dir,
                                 !.found = tests_to_run,
                                 !.digests = test_executables.bytes]
              IN  IF NoTests(tests_to_run)
                  THEN /\ log' = Append(log, Ev("scan", build_dir, 0))
                       /\ stack' = SetTop(Returning(g, 1))
                  ELSE /\ log' = log \o
                            << Ev("scan", build_dir, 0),
                               Ev("load_conan_environment", build_dir, 0) >>
                       /\ stack' = SetTop([g EXCEPT
                               !.todo = Dedup(tests_to_run, test_executables.bytes),
                               !.ret = 0,
                               !.pc = "run"])
    /\ UNCHANGED <<platform, cwd, environ, conf, call, obj, fs, proc, exitCode>>

TestRunOne ==
    /\ At("test", "run")
    /\ Top.todo # <<>>
    /\ LET f == Top
           file == Head(f.todo)
       IN  IF Selected(f.o.match, file)
           THEN \E r \in Codes :
                   /\ log' = Append(log, Ev("run_test", file, r))
                   /\ stack' = SetTop([f EXCEPT !.todo = Tail(f.todo),
                                                !.ret = f.ret + Abs(r)])
           ELSE /\ stack' = SetTop([f EXCEPT !.todo = Tail(f.todo)])
                /\ UNCHANGED log
    /\ UNCHANGED <<platform, cwd, environ, conf, call, obj, fs, proc, exitCode>>

TestFinish ==
    /\ At("test", "run")
    /\ Top.todo = <<>>
    /\ stack' = SetTop(Returning(Top, Top.ret))
    /\ UNCHANGED <<platform, cwd, environ, conf, call, obj, fs, log, proc, exitCode>>

\* ------------------------------------------------------------------ debug

DebugBegin ==
    /\ At("debug", "begin")
    /\ LET f == Top
           root_dir == obj["/project/root-dir"]
           build_dir == ObjGet("/project/build-dir",
                               get_build_dir(FALSE, root_dir))
       IN  /\ obj' = ObjSet(obj, "/project/build-dir", build_dir)
           /\ stack' = Invoke([f EXCEPT !.build_dir = build_dir,
                                        !.pc = "after_build"],
                              "build", [DefaultOpts EXCEPT !.release = FALSE])
    /\ UNCHANGED <<platform, cwd, environ, conf, call, fs, log, proc, exitCode>>

\* After the scan debug checks perf_event_paranoid; when it is above 1 the
\* call of the undefined name warn raises.
DebugAfterBuild ==
    /\ At("debug", "after_build")
    /\ LET f == Top
       IN  IF BuildFailed(f.invoked)
           THEN /\ stack' = SetTop(Returning(f, f.invoked))
                /\ UNCHANGED <<log, proc>>
           ELSE \E tree \in Trees, order \in Orders :
                   LET test_executables ==
                           get_list_of_test_executables_in_path(
                               f.build_dir, tree, order)
                       tests_to_run == test_executables.debug
                       \* digests: what the files hold; debug does not read it
                       g == [f EXCEPT !.found = tests_to_run,
                                      !.digests = ReadBytes(f.build_dir, tree,
                                                            tests_to_run)]
                   IN  /\ log' = Append(log, Ev("scan", f.build_dir, 0))
                       /\ IF NoTests(tests_to_run)
                          THEN /\ stack' = SetTop(Returning(g, 1))
                               /\ UNCHANGED proc
                          ELSE \/ /\ proc' = "raised"
                                  /\ stack' = SetTop(g)
                               \/ /\ stack' = SetTop([g EXCEPT
                                         !.todo = tests_to_run,
                                         !.ret = 0,
                                         !.pc = "run"])
                                  /\ UNCHANGED proc
    /\ UNCHANGED <<platform, cwd, environ, conf, call, obj, fs, exitCode>>

DebugRunOne ==
    /\ At("debug", "run")
    /\ Top.todo # <<>>
    /\ LET f == Top
           file == Head(f.todo)
       IN  IF Selected(f.o.match, file)
           THEN \E r \in Codes :
                   /\ log' = Append(log, Ev("rr_record", file, r))
                   /\ stack' = SetTop([f EXCEPT
                         !.todo = Tail(f.todo),
                         !.ret = f.ret + (IF r # 0 THEN 1 ELSE 0)])
           ELSE /\ stack' = SetTop([f EXCEPT !.todo = Tail(f.todo)])
                /\ UNCHANGED log
    /\ UNCHANGED <<platform, cwd, environ, conf, call, obj, fs, proc, exitCode>>

DebugFinish ==
    /\ At("debug", "run")
    /\ Top.todo = <<>>
    /\ stack' = SetTop(Returning(Top, Top.ret))
    /\ UNCHANGED <<platform, cwd, environ, conf, call, obj, fs, log, proc, exitCode>>

\* -------------------------------------------------------- tag_for_release

\* if tag in tags
TagExists(tag, tags) == tag \in tags

\* if output != "" (git status --porcelain)
TreeDirty(dirty_ok, output) == ~dirty_ok /\ output # <<>>

VersionMismatch_PrefixOnly(strict, tag, version_txt_tag) ==
    ~StartsWith(tag, version_txt_tag)

\* the version.txt check: equal under --strict, a prefix of the tag otherwise
VersionMismatch(strict, tag, version_txt_tag) ==
    IF strict
    THEN tag # version_txt_tag
    ELSE ~StartsWith(tag, version_txt_tag)

TestsFailed_PositiveOnly(ret) == ret > 0

\* if ret != 0 after ctx.invoke(test)
TestsFailed(ret) == ret # 0

\* if res.returncode != 0 (a pre-release hook)
HookFailed(code) == code # 0

\* **/pre-tag-release.sh on Linux, **/pre-tag-release.bat on Windows
HookName ==
    IF Lower(platform) = "linux" THEN "pre-tag-release.sh"
    ELSE "pre-tag-release.bat"

\* The k-th hook found under the root.
HookPath(k) ==
    RootDir \o [i \in 1..(k - 1) |-> "sub"] \o <<HookName>>

\* The checks before the test run. git tag and git status are read through
\* check_output, which raises when git fails. With --bump-version the
\* version file is rewritten and committed here.
TagCheck ==
    /\ At("tag_for_release", "begin")
    /\ LET f == Top
           version_file == RootDir \o <<"version.txt">>
       IN  \/ /\ proc' = "raised"
              /\ UNCHANGED <<stack, fs, log>>
           \/ \E tags \in GitTags :
                 LET f1 == [f EXCEPT !.tags = tags]
                 IN
                 IF TagExists(f.o.tag, tags)
                 THEN /\ stack' = SetTop(Returning(f1, 1))
                      /\ UNCHANGED <<fs, log, proc>>
                 ELSE
                 \E output \in (IF f.o.dirty_ok THEN {<<>>} ELSE GitStatus) :
                 LET f2 == [f1 EXCEPT !.output = output]
                 IN
                 IF TreeDirty(f.o.dirty_ok, output)
                 THEN /\ stack' = SetTop(Returning(f2, 1))
                      /\ UNCHANGED <<fs, log, proc>>
                 ELSE \E view \in FsViews({version_file}) :
                         /\ fs' = view
                         /\ UNCHANGED proc
                         /\ IF ~Exists(view, version_file)
                            THEN /\ stack' = SetTop([f2 EXCEPT !.pc = "test"])
                                 /\ UNCHANGED log
                            ELSE IF f.o.bump_version
                            THEN /\ log' = log \o
                                      << Ev("write_version", version_file, 0),
                                         Ev("git_add", version_file, 0),
                                         Ev("git_commit", version_file, 0) >>
                                 /\ stack' = SetTop([f2 EXCEPT !.pc = "test"])
                            ELSE \E version_txt_tag \in Versions :
                                    LET f3 == [f2 EXCEPT
                                          !.version_txt_tag = version_txt_tag]
                                    IN
                                    /\ stack' = SetTop(
                                         IF VersionMismatch(f.o.strict, f.o.tag,
                                                            version_txt_tag)
                                         THEN Returning(f3, 1)
                                         ELSE [f3 EXCEPT !.pc = "test"])
                                    /\ UNCHANGED log
    /\ UNCHANGED <<platform, cwd, environ, conf, call, obj, exitCode>>

\* tdir = mkdtemp(); ctx.obj['/project/build-dir'] = tdir; ctx.invoke(test, release=True)
TagInvokeTest ==
    /\ At("tag_for_release", "test")
    /\ obj' = ObjSet(obj, "/project/build-dir", TmpDir)
    /\ fs' = Create(fs, TmpDir)
    /\ stack' = Invoke([Top EXCEPT !.build_dir = TmpDir, !.pc = "after_test"],
                       "test", [DefaultOpts EXCEPT !.release = TRUE])
    /\ UNCHANGED <<platform, cwd, environ, conf, call, log, proc, exitCode>>

TagAfterTest ==
    /\ At("tag_for_release", "after_test")
    /\ IF TestsFailed(Top.invoked)
       THEN stack' = SetTop(Returning(Top, 1))
       ELSE \E n \in 0..MaxHooks :
               stack' = SetTop([Top EXCEPT
                           !.found = [k \in 1..n |-> HookPath(k)],
                           !.todo = [k \in 1..n |-> HookPath(k)],
                           !.pc = "hooks"])
    /\ UNCHANGED <<platform, cwd, environ, conf, call, obj, fs, log, proc, exitCode>>

\* A hook that is not executable is reported and run all the same, and
\* subprocess.run raises on it.
TagRunHook ==
    /\ At("tag_for_release", "hooks")
    /\ Top.todo # <<>>
    /\ LET f == Top
           hook == Head(f.todo)
       IN  \E executable \in
                (IF Lower(platform) = "windows" THEN {TRUE} ELSE BOOLEAN) :
              IF ~executable
              THEN /\ proc' = "raised"
                   /\ UNCHANGED <<stack, log>>
              ELSE \E r \in Codes :
                      /\ log' = Append(log, Ev("hook", hook, r))
                      /\ stack' = SetTop(IF HookFailed(r)
                                         THEN Returning(f, 1)
                                         ELSE [f EXCEPT !.todo = Tail(f.todo)])
                      /\ UNCHANGED proc
    /\ UNCHANGED <<platform, cwd, environ, conf, call, obj, fs, exitCode>>

\* if not dry_run: git tag; its code is not looked at. The command then
\* ends without return_or_exit, and click ends the process with 0.
TagApply ==
    /\ At("tag_for_release", "hooks")
    /\ Top.todo = <<>>
    /\ log' = IF Top.o.dry_run
              THEN log
              ELSE Append(log, Ev("git_tag", Top.o.tag, 0))
    /\ stack' = SetTop([Top EXCEPT !.pc = "done"])
    /\ proc' = "exited"
    /\ exitCode' = 0
    /\ UNCHANGED <<platform, cwd, environ, conf, call, obj, fs>>

\* ---------------------------------------------------------------- install

\* Path("build-install"): a relative path, resolved against the working
\* directory of the moment it is used
BuildInstall == <<".", "build-install">>
\* tempfile.TemporaryDirectory(suffix=".d", prefix="ccc-install")
CloneDir == <<"tmp", "ccc-install.d">>

RestoreDir_Stay(odir, tdir) == tdir

\* os.chdir(odir) after the checkout failed or the build returned
RestoreDir(odir, tdir) == odir

\* if res.returncode != 0 (git clone, git checkout)
GitFailed(code) == code # 0

\* The build directory is written into ctx.obj; without a tag configure is
\* invoked at once.
InstallBegin ==
    /\ At("install", "begin")
    /\ LET f == Top
           build_dir == ObjGet("/project/build-dir", BuildInstall)
           g == [f EXCEPT !.build_dir = build_dir, !.ret = 0]
       IN  /\ obj' = ObjSet(obj, "/project/build-dir", build_dir)
           /\ stack' = IF f.o.tag = <<>>
                       THEN Invoke([g EXCEPT !.pc = "after_configure"],
                                   "configure",
                                   [DefaultOpts EXCEPT !.release = f.o.release])
                       ELSE SetTop([g EXCEPT !.pc = "clone", !.odir = cwd])
    /\ UNCHANGED <<platform, cwd, environ, conf, call, fs, log, proc, exitCode>>

\* get_project_root raises outside a git repository. git clone root tdir;
\* on success os.chdir(tdir).
InstallClone ==
    /\ At("install", "clone")
    /\ \/ /\ proc' = "raised"
          /\ UNCHANGED <<stack, log, cwd>>
       \/ \E r \in Codes :
             /\ log' = Append(log, Ev("git_clone", CloneDir, r))
             /\ IF GitFailed(r)
                THEN /\ stack' = SetTop(Returning(Top, 1))
                     /\ UNCHANGED cwd
                ELSE /\ stack' = SetTop([Top EXCEPT !.pc = "checkout"])
                     /\ cwd' = CloneDir
             /\ UNCHANGED proc
    /\ UNCHANGED <<platform, environ, conf, call, obj, fs, exitCode>>

\* git checkout tag in the clone; on failure the directory is restored.
InstallCheckout ==
    /\ At("install", "checkout")
    /\ \E r \in Codes :
          /\ log' = Append(log, Ev("git_checkout", Top.o.tag, r))
          /\ IF GitFailed(r)
             THEN /\ cwd' = RestoreDir(Top.odir, CloneDir)
                  /\ stack' = SetTop(Returning(Top, 1))
             ELSE /\ UNCHANGED cwd
                  /\ stack' = Invoke([Top EXCEPT !.pc = "after_configure"],
                                     "configure",
                                     [DefaultOpts EXCEPT !.release = Top.o.release])
    /\ UNCHANGED <<platform, environ, conf, call, obj, fs, proc, exitCode>>

\* Without a tag: ret += the value of ctx.invoke(configure). With a tag that
\* value is dropped. Then build is invoked.
InstallAfterConfigure ==
    /\ At("install", "after_configure")
    /\ LET f == Top
           g == IF f.o.tag = <<>> THEN [f EXCEPT !.ret = f.ret + f.invoked]
                ELSE f
       IN  stack' = Invoke([g EXCEPT !.pc = "after_build"], "build",
                           [DefaultOpts EXCEPT !.release = f.o.release])
    /\ UNCHANGED <<platform, cwd, environ, conf, call, obj, fs, log, proc, exitCode>>

\* Without a tag: ret += the value of ctx.invoke(build), and ret is returned.
\* With a tag: the directory is restored and the command ends without
\* return_or_exit, so click ends the process with 0.
InstallAfterBuild ==
    /\ At("install", "after_build")
    /\ LET f == Top
       IN  IF f.o.tag = <<>>
           THEN /\ stack' = SetTop(Returning(f, f.ret + f.invoked))
                /\ UNCHANGED <<cwd, proc, exitCode>>
           ELSE /\ cwd' = RestoreDir(f.odir, CloneDir)
                /\ stack' = SetTop([f EXCEPT !.pc = "done"])
                /\ proc' = "exited"
                /\ exitCode' = 0
    /\ UNCHANGED <<platform, environ, conf, call, obj, fs, log>>

\* -------------------------------------------------------------------- get

\* The codes of a git command that failed.
ErrorCodes == Codes \ {0}

\* urllib.parse.urlparse(r).scheme
UrlScheme(r) == IF r = "https://host" THEN "https" ELSE ""

\* Path(urllib.parse.urlparse(r).path): "." names no directory of its own
UrlPath(r) ==
    CASE r = "/srv" -> <<"/", "srv">>
      [] r = "." -> <<>>
      [] OTHER -> <<r>>

\* if not remote and not '/project/remotes' in ctx.obj
NoRemotes(remote) ==
    remote = <<>> /\ "/project/remotes" \notin DOMAIN obj

GetBegin ==
    /\ At("get", "begin")
    /\ LET f == Top
           remote == IF Len(f.o.remote) < 1 /\ ~NoRemotes(f.o.remote)
                     THEN obj["/project/remotes"] ELSE f.o.remote
       IN  stack' = SetTop(IF NoRemotes(f.o.remote)
                           THEN Returning(f, 1)
                           ELSE [f EXCEPT !.todo = remote, !.pc = "remotes"])
    /\ UNCHANGED <<platform, cwd, environ, conf, call, obj, fs, log, proc,
                   exitCode>>

\* One turn of the loop over the remotes. git ls-remote and git clone run
\* through check_output: a non-zero code is a CalledProcessError, which has
\* an output; when git cannot be started the exception has none and the
\* handler raises at e.output. A copytree that fails may leave dest behind.
GetTryRemote ==
    /\ At("get", "remotes")
    /\ Top.todo # <<>>
    /\ Top.success_remote = <<>>
    /\ LET f == Top
           r == Head(f.todo)
           src == UrlPath(r) \o <<ProjectName>>
           dest == <<ProjectName>>
           here == cwd \o dest
           next == [f EXCEPT !.todo = Tail(f.todo)]
           Failed(x) == [next EXCEPT
                           !.failed_remotes = Append(f.failed_remotes, x)]
       IN  IF UrlScheme(r) \notin {"", "file"}
           THEN /\ stack' = SetTop(Failed(<<r>>))
                /\ UNCHANGED <<fs, log, proc>>
           ELSE IF src = dest
           THEN /\ stack' = SetTop(Returning(f, 1))
                /\ UNCHANGED <<fs, log, proc>>
           ELSE \E view \in FsViews({here, src}) :
                   IF Exists(view, here)
                   THEN /\ fs' = view
                        /\ stack' = SetTop(Returning(f, 1))
                        /\ UNCHANGED <<log, proc>>
                   ELSE \/ /\ log' = log \o << Ev("git_ls_remote", src, 0),
                                               Ev("git_clone", src, 0) >>
                           /\ fs' = Create(view, here)
                           /\ stack' = SetTop([f EXCEPT
                                 !.success_remote = <<"clone">> \o src])
                           /\ UNCHANGED proc
                        \/ /\ proc' = "raised"
                           /\ fs' = view
                           /\ UNCHANGED <<log, stack>>
                        \/ \E c \in ErrorCodes :
                              IF ~Exists(view, src)
                              THEN /\ log' = Append(log,
                                                Ev("git_ls_remote", src, c))
                                   /\ fs' = view
                                   /\ stack' = SetTop(Failed(src))
                                   /\ UNCHANGED proc
                              ELSE \/ /\ log' = log \o
                                           << Ev("git_ls_remote", src, c),
                                              Ev("copytree", src, 0) >>
                                      /\ fs' = Create(view, here)
                                      /\ stack' = SetTop([f EXCEPT
                                            !.success_remote = <<"copy">> \o src])
                                      /\ UNCHANGED proc
                                   \/ /\ log' = log \o
                                           << Ev("git_ls_remote", src, c),
                                              Ev("copytree", src, 1) >>
                                      /\ fs' = [view EXCEPT
                                                  !.absent = @ \ {here}]
                                      /\ stack' = SetTop(Failed(src))
                                      /\ UNCHANGED proc
    /\ UNCHANGED <<platform, cwd, environ, conf, call, obj, exitCode>>

\* After the loop get reports what happened and ends without a return
\* statement: the command's value is None and the process ends with 0.
GetReport ==
    /\ At("get", "remotes")
    /\ Top.todo = <<>> \/ Top.success_remote # <<>>
    /\ log' = Append(log, Ev(IF Top.success_remote # <<>>
                             THEN "report_success" ELSE "report_fail",
                             Top.success_remote, 0))
    /\ stack' = SetTop([Top EXCEPT !.pc = "done"])
    /\ proc' = "exited"
    /\ exitCode' = 0
    /\ UNCHANGED <<platform, cwd, environ, conf, call, obj, fs>>

\* ------------------------------ setup_special_files, link_compiler_commands

\* Nothing but these two commands puts an entry at the paths they link
\* from, so an entry found there is a link: path.is_symlink()
IsSymlink(view, p) == Exists(view, p)

\* link.symlink_to(target): os.symlink fails when link is there already
SymlinkTo(view, link) ==
    [ok |-> ~Exists(view, link), fs |-> Create(view, link)]

\* link.unlink()
Unlink(view, p) ==
    [present |-> view.present \ {p}, absent |-> view.absent \cup {p}]

\* The function has no return statement: the process ends with 0 unless a
\* symlink_to raised FileExistsError.
SetupSpecialFiles ==
    /\ At("setup_special_files", "begin")
    /\ LET f == Top
           root_dir == obj["/project/root-dir"]
           build_dir == ObjGet("/project/build-dir",
                               get_build_dir(FALSE, root_dir))
           presets == root_dir \o <<"CMakePresets.json">>
           commands == root_dir \o <<"compile_commands.json">>
       IN  \E view \in FsViews({presets, commands}) :
              LET first == SymlinkTo(view, presets)
                  second == SymlinkTo(first.fs, commands)
              IN  IF ~first.ok
                  THEN /\ fs' = view
                       /\ log' = Append(log, Ev("FileExistsError", presets, 1))
                       /\ proc' = "raised"
                       /\ UNCHANGED <<stack, exitCode>>
                  ELSE IF ~second.ok
                  THEN /\ fs' = first.fs
                       /\ log' = log \o << Ev("symlink", presets, 0),
                                           Ev("FileExistsError", commands, 1) >>
                       /\ proc' = "raised"
                       /\ UNCHANGED <<stack, exitCode>>
                  ELSE /\ fs' = second.fs
                       /\ log' = log \o << Ev("symlink", presets, 0),
                                           Ev("symlink", commands, 0) >>
                       /\ stack' = SetTop([f EXCEPT !.build_dir = build_dir,
                                                    !.pc = "done"])
                       /\ proc' = "exited"
                       /\ exitCode' = 0
    /\ UNCHANGED <<platform, cwd, environ, conf, call, obj>>

\* Run inside the work tree RootDir. The glob lists the compile_commands.json
\* of the build directories and, when it is there, the link in the root
\* itself; which of them is newest is open. The command ends with sys.exit.
LinkCompilerCommands ==
    /\ At("link_compiler_commands", "begin")
    /\ LET f == Top
           root == RootDir
           link_to_create == root \o <<"compile_commands.json">>
           built == { get_build_dir(r, root) \o <<"compile_commands.json">> :
                        r \in BOOLEAN }
       IN  \E view \in FsViews(built \cup {link_to_create}) :
              LET files == {p \in built \cup {link_to_create} : Exists(view, p)}
              IN  IF files = {}
                  THEN /\ fs' = view
                       /\ stack' = SetTop([f EXCEPT !.pc = "done"])
                       /\ proc' = "exited"
                       /\ exitCode' = 1
                       /\ UNCHANGED log
                  ELSE \E file_to_link \in files :
                          LET cleared == IF IsSymlink(view, link_to_create)
                                         THEN Unlink(view, link_to_create)
                                         ELSE view
                              made == SymlinkTo(cleared, link_to_create)
                          IN  IF ~made.ok
                              THEN /\ fs' = cleared
                                   /\ log' = Append(log,
                                         Ev("FileExistsError", link_to_create, 1))
                                   /\ proc' = "raised"
                                   /\ UNCHANGED <<stack, exitCode>>
                              ELSE /\ fs' = made.fs
                                   /\ log' = Append(log,
                                         Ev("symlink", file_to_link, 0))
                                   /\ stack' = SetTop([f EXCEPT !.pc = "done"])
                                   /\ proc' = "exited"
                                   /\ exitCode' = 0
    /\ UNCHANGED <<platform, cwd, environ, conf, call, obj>>

Next ==
    \/ Main(PipelineCommands)
    \/ ReturnOrExit
    \/ ConfigureBegin
    \/ ConfigureConanInstall
    \/ ConfigureCmake
    \/ BuildBegin
    \/ BuildCmake
    \/ TestBegin
    \/ TestAfterBuild
    \/ TestScan
    \/ TestRunOne
    \/ TestFinish
    \/ DebugBegin
    \/ DebugAfterBuild
    \/ DebugRunOne
    \/ DebugFinish

Spec == Init /\ [][Next]_vars

\* The tag_for_release command and the commands it runs.
NextTag ==
    \/ Main({"tag_for_release"})
    \/ ReturnOrExit
    \/ ConfigureBegin
    \/ ConfigureConanInstall
    \/ ConfigureCmake
    \/ BuildBegin
    \/ BuildCmake
    \/ TestBegin
    \/ TestAfterBuild
    \/ TestScan
    \/ TestRunOne
    \/ TestFinish
    \/ TagCheck
    \/ TagInvokeTest
    \/ TagAfterTest
    \/ TagRunHook
    \/ TagApply

SpecTag == Init /\ [][NextTag]_vars

\* The directories install may be started in.
StartDirs == {RootDir, RootDir \o <<"sub">>}

InitInstall ==
    /\ platform \in {"Linux", "Windows"}
    /\ obj = [k \in {} |-> NoPath]
    /\ fs = [present |-> {}, absent |-> {}]
    /\ stack = <<>>
    /\ log = <<>>
    /\ proc = "init"
    /\ exitCode = 0
    /\ cwd \in StartDirs
    /\ environ = NoEnviron
    /\ conf = NoConf
    /\ call = NoCall

\* The install command and the commands it runs.
NextInstall ==
    \/ Main({"install"})
    \/ ReturnOrExit
    \/ ConfigureBegin
    \/ ConfigureConanInstall
    \/ ConfigureCmake
    \/ BuildBegin
    \/ BuildCmake
    \/ InstallBegin
    \/ InstallClone
    \/ InstallCheckout
    \/ InstallAfterConfigure
    \/ InstallAfterBuild

SpecInstall == InitInstall /\ [][NextInstall]_vars

\* The program is run at most MaxRuns times, one run after the other, on
\* the same file system.
MaxRuns == 2

NoRuns == [fn |-> "runs", n |-> 1, last_cmd |-> "", last_ok |-> FALSE]

InitRuns ==
    /\ platform \in {"Linux", "Windows"}
    /\ obj = [k \in {} |-> NoPath]
    /\ fs = [present |-> {}, absent |-> {}]
    /\ stack = <<>>
    /\ log = <<>>
    /\ proc = "init"
    /\ exitCode = 0
    /\ cwd = RootDir
    /\ environ = NoEnviron
    /\ conf = NoConf
    /\ call = NoRuns

\* The run is over and the program is started again: a new process, the
\* files as the last run left them.
NewRun ==
    /\ call.fn = "runs"
    /\ call.n < MaxRuns
    /\ proc \in {"exited", "raised"}
    /\ call' = [call EXCEPT !.n = call.n + 1,
                            !.last_cmd = stack[1].cmd,
                            !.last_ok = (proc = "exited" /\ exitCode = 0)]
    /\ proc' = "init"
    /\ exitCode' = 0
    /\ stack' = <<>>
    /\ log' = <<>>
    /\ obj' = [k \in {} |-> NoPath]
    /\ UNCHANGED <<platform, cwd, environ, conf, fs>>

\* configure and the commands that create links, run again and again.
NextRuns ==
    \/ Main(RerunCommands)
    \/ ReturnOrExit
    \/ ConfigureBegin
    \/ ConfigureConanInstall
    \/ ConfigureCmake
    \/ SetupSpecialFiles
    \/ LinkCompilerCommands
    \/ NewRun

SpecRuns == InitRuns /\ [][NextRuns]_vars

\* What the configuration files may say of /project/remotes.
ConfigRemotes == {<<>>, <<"/srv">>, <<"https://host", "/srv">>}

\* main has read the configuration files, which may list remotes.
InitGet ==
    /\ platform \in {"Linux", "Windows"}
    /\ obj \in {[k \in {} |-> NoPath]}
               \cup {[k \in {"/project/remotes"} |-> r] : r \in ConfigRemotes}
    /\ fs = [present |-> {}, absent |-> {}]
    /\ stack = <<>>
    /\ log = <<>>
    /\ proc = "init"
    /\ exitCode = 0
    /\ cwd = RootDir
    /\ environ = NoEnviron
    /\ conf = NoConf
    /\ call = NoCall

\* The get command.
NextGet ==
    \/ Main({"get"})
    \/ ReturnOrExit
    \/ GetBegin
    \/ GetTryRemote
    \/ GetReport

SpecGet == InitGet /\ [][NextGet]_vars

\* ------------------------------------------------------------------ merge

\* A configuration document is a dict: a function from keys to values. A
\* value is a scalar or a nested dict.
TopKeys == {"environment", "project"}
SubKeys == {"K"}
Scalars == {"1", "2"}

Leaf(s) == [kind |-> "scalar", v |-> s, m |-> <<>>]
Map(d) == [kind |-> "map", v |-> "", m |-> d]

DictsOver(keys, values) == UNION {[S -> values] : S \in SUBSET keys}

Leaves == {Leaf(s) : s \in Scalars}
SubDicts == DictsOver(SubKeys, Leaves)
Docs == DictsOver(TopKeys, Leaves \cup {Map(d) : d \in SubDicts})

\* The orders in which the keys of a dict are iterated (the order in which
\* the file lists them).
KeyOrders == { <<"environment", "project", "K">>,
               <<"project", "environment", "K">> }

\* '.'.join(parts)
Join(sep, parts) ==
    [i \in 1..(2 * Len(parts) - 1) |->
        IF i % 2 = 1 THEN parts[(i + 1) \div 2] ELSE sep]

BothDicts_DestOnly(x, y) == x.kind = "map"

\* isinstance(a[key], dict) and isinstance(b[key], dict)
BothDicts(x, y) == x.kind = "map" /\ y.kind = "map"

SameValue_Always(x, y) == TRUE

\* a[key] == b[key]
SameValue(x, y) == x = y

\* a[key] = b[key]
DictSet(d, key, value) ==
    [k \in DOMAIN d \cup {key} |-> IF k = key THEN value ELSE d[k]]

\* merge(a, b, path): b's keys are taken in the order given; the result is
\* the dict a has become, or the conflict raised (a as it was by then).
RECURSIVE merge(_, _, _, _)
merge(a, b, path, order) ==
    LET keys == SelectSeq(order, LAMBDA k : k \in DOMAIN b)
        Step(acc, key) ==
            IF ~acc.ok THEN acc
            ELSE IF key \in DOMAIN acc.tree
            THEN IF BothDicts(acc.tree[key], b[key])
                 THEN LET r == merge(acc.tree[key].m, b[key].m,
                                     Append(path, key), order)
                      IN  [ok |-> r.ok,
                           tree |-> DictSet(acc.tree, key, Map(r.tree)),
                           err |-> r.err]
                 ELSE IF SameValue(acc.tree[key], b[key])
                 THEN acc
                 ELSE [ok |-> FALSE, tree |-> acc.tree,
                       err |-> <<"Conflict at">>
                                 \o Join(".", Append(path, key))]
            ELSE [acc EXCEPT !.tree = DictSet(acc.tree, key, b[key])]
        Upto[i \in 0..Len(keys)] ==
            IF i = 0 THEN [ok |-> TRUE, tree |-> a, err |-> <<>>]
            ELSE Step(Upto[i - 1], keys[i])
    IN  Upto[Len(keys)]

NoResult == [ok |-> TRUE, tree |-> <<>>, err |-> <<>>]

MergeCalls ==
    [fn : {"merge"}, a : Docs, b : Docs, order : KeyOrders,
     done : {FALSE}, result : {NoResult}]

CallMerge ==
    /\ call.fn = "merge"
    /\ ~call.done
    /\ call' = [call EXCEPT !.done = TRUE,
                            !.result = merge(call.a, call.b, <<>>, call.order)]
    /\ UNCHANGED <<platform, cwd, environ, conf, obj, fs, stack, log, proc, exitCode>>

\* ------------------------------------------------------- find_files_above

\* A start directory lies at most MaxDepth levels below the filesystem root.
MaxDepth == 3

\* The directory n levels below the filesystem root <<>>.
Dir(n) == [i \in 1..n |-> "dir"]

\* --config: the name looked for in each directory
ConfigName == ".project.yml"

\* itertools.chain([path], path.resolve().parents): the directory itself,
\* then its ancestors up to the root
DirChain(path) ==
    [h \in 1..(Len(path) + 1) |-> SubSeq(path, 1, Len(path) - h + 1)]

Reverse(files) ==
    [i \in 1..Len(files) |-> files[Len(files) - i + 1]]

\* max_height: <<>> for None, <<k>> for the cap k
NoCap == <<>>

PastCap_Inclusive(height, max_height) ==
    max_height # NoCap /\ height >= max_height[1]

\* if max_height is not None and height > max_height
PastCap(height, max_height) ==
    max_height # NoCap /\ height > max_height[1]

\* find_files_above(path, pattern, max_height), has being the directories
\* in which dir.glob(pattern) finds the file
find_files_above(path, has, max_height) ==
    LET dirs == DirChain(path)
        \* the files gathered once the directories of height < h are done
        Upto[h \in 0..Len(dirs)] ==
            IF h = 0 THEN [files |-> <<>>, returned |-> FALSE]
            ELSE IF Upto[h - 1].returned \/ PastCap(h - 1, max_height)
            THEN [files |-> Upto[h - 1].files, returned |-> TRUE]
            ELSE [files |-> IF dirs[h] \in has
                            THEN Append(Upto[h - 1].files,
                                        dirs[h] \o <<ConfigName>>)
                            ELSE Upto[h - 1].files,
                  returned |-> FALSE]
    IN  Reverse(Upto[Len(dirs)].files)

FindCalls ==
    UNION { [fn : {"find_files_above"}, path : {Dir(n)},
             has : SUBSET {Dir(k) : k \in 0..n},
             max_height : {NoCap} \cup {<<k>> : k \in 0..MaxDepth},
             done : {FALSE}, result : {<<>>}] : n \in 0..MaxDepth }

CallFindFilesAbove ==
    /\ call.fn = "find_files_above"
    /\ ~call.done
    /\ call' = [call EXCEPT
                  !.done = TRUE,
                  !.result = find_files_above(call.path, call.has,
                                              call.max_height)]
    /\ UNCHANGED <<platform, cwd, environ, conf, obj, fs, stack, log, proc, exitCode>>

\* ------------------------------------------------------- load_environment

\* load_environment is applied at most MaxCalls times to the same input.
MaxCalls == 2

\* A string is a sequence of tokens: pieces of text, the quote character,
\* the list separator, a placeholder.
Quote == "\""

\* env_list_sep
env_list_sep == IF Lower(platform) = "windows" THEN ";" ELSE ":"

\* env_var_interp_patterns, formatted for the name k
env_var_interp_patterns(k) ==
    IF Lower(platform) = "windows"
    THEN << "$env:" \o k >>
    ELSE << "${" \o k \o ":+:$" \o k \o "}", "${" \o k \o "+:$" \o k \o "}" >>

\* The strings of items in a row, with the tokens of between after each but
\* the last.
RECURSIVE Flatten(_, _)
Flatten(between, items) ==
    IF items = <<>> THEN <<>>
    ELSE IF Len(items) = 1 THEN items[1]
    ELSE items[1] \o between \o Flatten(between, Tail(items))

\* sep.join(items)
JoinStrings(sep, items) == Flatten(<<sep>>, items)

\* s.split(sep): the pieces between the occurrences of sep
Split(s, sep) ==
    LET at == {i \in DOMAIN s : s[i] = sep}
        n == Cardinality(at)
        Pos(k) == IF k = 0 THEN 0
                  ELSE IF k = n + 1 THEN Len(s) + 1
                  ELSE CHOOSE i \in at : Cardinality({j \in at : j < i}) = k - 1
    IN  [k \in 1..(n + 1) |-> SubSeq(s, Pos(k - 1) + 1, Pos(k) - 1)]

\* x.strip(ch)
Strip(x, ch) ==
    LET keep == {i \in DOMAIN x : x[i] # ch}
    IN  IF keep = {} THEN <<>>
        ELSE SubSeq(x, CHOOSE i \in keep : \A j \in keep : i <= j,
                       CHOOSE i \in keep : \A j \in keep : i >= j)

\* s.replace(pattern, repl): every occurrence of pattern gives way to repl
Replace(s, pattern, repl) == Flatten(repl, Split(s, pattern))

Replacement_NoSeparator(k, environment) ==
    IF k \in DOMAIN environment THEN environment[k] ELSE <<>>

\* What a placeholder gives way to: env_list_sep + os.environ[k] if k is in
\* os.environ, else ""
Replacement(k, environment) ==
    IF k \in DOMAIN environment
    THEN <<env_list_sep>> \o environment[k] ELSE <<>>

ListValue_Replace(items, sep, ambient) == JoinStrings(sep, items)

\* env_list_sep.join(v) + env_list_sep + os.environ.get(k, '')
ListValue(items, sep, ambient) ==
    JoinStrings(sep, items) \o <<sep>> \o ambient

\* The names of env in the order the loop takes them.
EnvNames == <<"PATH">>

\* load_environment(env): os.environ afterwards, given os.environ before
load_environment(env, before) ==
    LET names == SelectSeq(EnvNames, LAMBDA k : k \in DOMAIN env)
        Value(environment, k) ==
            LET v0 == IF env[k].list
                      THEN ListValue(env[k].items, env_list_sep,
                                     IF k \in DOMAIN environment
                                     THEN environment[k] ELSE <<>>)
                      ELSE env[k].s
                pats == env_var_interp_patterns(k)
                repl == Replacement(k, environment)
                Interp[i \in 0..Len(pats)] ==
                    IF i = 0 THEN v0
                    ELSE Replace(Interp[i - 1], pats[i], repl)
                pieces == Split(Interp[Len(pats)], env_list_sep)
            IN  JoinStrings(env_list_sep,
                            [i \in 1..Len(pieces) |-> Strip(pieces[i], Quote)])
        Upto[i \in 0..Len(names)] ==
            IF i = 0 THEN before
            ELSE LET environment == Upto[i - 1]
                     k == names[i]
                 IN  [n \in DOMAIN environment \cup {k} |->
                        IF n = k THEN Value(environment, k) ELSE environment[n]]
    IN  Upto[Len(names)]

\* Elements of a list value: plain, quoted, holding the placeholder.
ListElems ==
    { <<"a">>, <<"b">>, <<Quote, "b", Quote>>,
      <<"b", env_var_interp_patterns("PATH")[1]>> }

EnvValues ==
    { [list |-> TRUE, items |-> <<x>>, s |-> <<>>] : x \in ListElems }
    \cup { [list |-> TRUE, items |-> <<x, y>>, s |-> <<>>] :
             x \in ListElems, y \in ListElems }
    \cup { [list |-> FALSE, items |-> <<>>, s |-> v] :
             v \in { <<"a">>,
                     <<Quote, "a", Quote, env_var_interp_patterns("PATH")[1]>>,
                     <<"a", env_var_interp_patterns("PATH")
                               [Len(env_var_interp_patterns("PATH"))]>> } }

\* os.environ when the first call is made: PATH unset, plain, or quoted.
Ambients ==
    { NoEnviron, [k \in {"PATH"} |-> <<"c">>],
      [k \in {"PATH"} |-> <<Quote, "c", Quote>>] }

EnvCalls ==
    [fn : {"load_environment"}, env : [{"PATH"} -> EnvValues],
     ambient : Ambients, n : {0}]

CallLoadEnvironment ==
    /\ call.fn = "load_environment"
    /\ call.n < MaxCalls
    /\ environ' = load_environment(call.env, environ)
    /\ call' = [call EXCEPT !.n = call.n + 1]
    /\ UNCHANGED <<platform, cwd, conf, obj, fs, stack, log, proc, exitCode>>

\* ------------------------- load_conan_environment, load_conan_buildinfo

\* The names a build directory may hold for the loaders.
DescriptorNames ==
    { <<"environment", ".sh", ".env">>, <<"environment", ".ps1", ".env">>,
      <<"conanbuildinfo.txt">> }

\* ext
DescriptorExt == IF Lower(platform) = "windows" THEN "ps1" ELSE "sh"

\* path.glob(f'environment*.{ext}.env') over the names held by a directory
GlobEnvironment(files) ==
    { f \in files : /\ Len(f) = 3
                    /\ f[1] = "environment"
                    /\ f[2] = "." \o DescriptorExt
                    /\ f[3] = ".env" }

\* A loader's outcome: os.environ afterwards, and whether it raised.
Loaded(environment) == [raised |-> FALSE, environ |-> environment]
Raised(environment) == [raised |-> TRUE, environ |-> environment]

\* load_conan_environment(path): path is missing, a file holding the
\* variables text, or a directory whose descriptor files hold them.
load_conan_environment(path, before) ==
    LET is_dir == path.kind = "dir"
        files_to_load == IF is_dir THEN GlobEnvironment(path.files)
                         ELSE {path.name}
        \* file.read_text() raises when there is no such file
        unreadable == ~is_dir /\ path.kind = "missing"
    IN  IF files_to_load = {} THEN Loaded(before)
        ELSE IF unreadable THEN Raised(before)
        ELSE Loaded(load_environment(path.text, before))

BuildInfoName == <<"conanbuildinfo.txt">>

\* s.startswith("ENV_")
IsEnvSection(section) == StartsWith(section.name, <<"ENV_">>)

\* load_conan_buildinfo(path): path is missing, a file holding sections, or
\* a directory that may hold conanbuildinfo.txt with these sections.
\* ConfigParser.read leaves out a file that cannot be opened.
load_conan_buildinfo(path, before) ==
    IF path.kind = "dir" /\ BuildInfoName \notin path.files
    THEN Loaded(before)
    ELSE LET sections == IF path.kind = "missing" THEN <<>>
                         ELSE path.sections
             env_sections == SelectSeq(sections, IsEnvSection)
             Upto[i \in 0..Len(env_sections)] ==
                 IF i = 0 THEN before
                 ELSE load_environment(env_sections[i].env, Upto[i - 1])
         IN  Loaded(Upto[Len(env_sections)])

\* The variables of a flat descriptor file: scalars only.
DescriptorTexts ==
    [{"PATH"} -> {v \in EnvValues : ~v.list}]

\* The variables of a section of conanbuildinfo.txt.
SectionEnvs ==
    [{"PATH"} -> { [list |-> TRUE, items |-> << <<"a">> >>, s |-> <<>>],
                   [list |-> FALSE, items |-> <<>>, s |-> <<"b">>] }]

Sections ==
    [name : {<<"ENV_", "dep">>, <<"USER_", "dep">>}, env : SectionEnvs]

SectionLists ==
    {<<>>} \cup {<<x>> : x \in Sections}
           \cup {<<x, y>> : x \in Sections, y \in Sections}

ConanEnvPaths ==
    [kind : {"missing", "file"}, name : {<<"env.txt">>}, files : {{}},
     text : DescriptorTexts]
    \cup [kind : {"dir"}, name : {<<"build">>},
          files : SUBSET DescriptorNames, text : DescriptorTexts]

BuildInfoPaths ==
    [kind : {"missing", "file"}, name : {<<"info.txt">>}, files : {{}},
     sections : SectionLists]
    \cup [kind : {"dir"}, name : {<<"build">>},
          files : SUBSET DescriptorNames, sections : SectionLists]

ConanCalls ==
    [fn : {"load_conan_environment"}, path : ConanEnvPaths,
     ambient : Ambients, n : {0}, raised : {FALSE}]
    \cup [fn : {"load_conan_buildinfo"}, path : BuildInfoPaths,
          ambient : Ambients, n : {0}, raised : {FALSE}]

CallLoadConanEnvironment ==
    /\ call.fn = "load_conan_environment"
    /\ call.n < MaxCalls
    /\ ~call.raised
    /\ LET r == load_conan_environment(call.path, environ)
       IN  /\ environ' = r.environ
           /\ call' = [call EXCEPT !.n = call.n + 1, !.raised = r.raised]
    /\ UNCHANGED <<platform, cwd, conf, obj, fs, stack, log, proc, exitCode>>

CallLoadConanBuildinfo ==
    /\ call.fn = "load_conan_buildinfo"
    /\ call.n < MaxCalls
    /\ ~call.raised
    /\ LET r == load_conan_buildinfo(call.path, environ)
       IN  /\ environ' = r.environ
           /\ call' = [call EXCEPT !.n = call.n + 1, !.raised = r.raised]
    /\ UNCHANGED <<platform, cwd, conf, obj, fs, stack, log, proc, exitCode>>

\* ---------------------------------------------- main: configuration files

\* The invocation directory lies at most MaxConfDepth levels below the root.
MaxConfDepth == 1

\* What a configuration file may hold: the environment section, when there
\* is one, is a dict of name -> value. The empty document also stands for an
\* empty file (yaml gives None, and main skips it).
ConfigDocs ==
    {d \in Docs : "environment" \in DOMAIN d => d["environment"].kind = "map"}

\* max_height = None; if local_config_only: max_height = 0
MaxHeight(local_config_only) ==
    IF local_config_only THEN <<0>> ELSE NoCap

\* obj.get('environment', {})
EnvironmentSection(tree) ==
    IF "environment" \in DOMAIN tree THEN tree["environment"].m ELSE <<>>

InitConfig ==
    /\ platform \in {"Linux", "Windows"}
    /\ obj = [k \in {} |-> NoPath]
    /\ fs = [present |-> {}, absent |-> {}]
    /\ stack = <<>>
    /\ log = <<>>
    /\ proc = "init"
    /\ exitCode = 0
    /\ environ = NoEnviron
    /\ call = NoCall
    /\ \E n \in 0..MaxConfDepth :
          /\ cwd = Dir(n)
          /\ conf \in [pc : {"find"},
                        local_config_only : BOOLEAN,
                        docs : DictsOver({Dir(k) : k \in 0..n}, ConfigDocs),
                        order : KeyOrders,
                        config_files : {<<>>},
                        todo : {<<>>},
                        obj : {<<>>},
                        err : {<<>>}]

\* config_files = find_files_above(Path(), config.name, max_height); obj = dict()
MainFindConfigFiles ==
    /\ proc = "init"
    /\ conf.pc = "find"
    /\ LET config_files ==
               find_files_above(cwd, DOMAIN conf.docs,
                                MaxHeight(conf.local_config_only))
       IN  conf' = [conf EXCEPT !.config_files = config_files,
                                !.todo = config_files,
                                !.obj = <<>>,
                                !.pc = "merge"]
    /\ UNCHANGED <<platform, cwd, environ, call, obj, fs, stack, log, proc, exitCode>>

\* for file in config_files: merge(obj, yaml.safe_load(file.read_text()))
MainMergeConfig ==
    /\ proc = "init"
    /\ conf.pc = "merge"
    /\ conf.todo # <<>>
    /\ LET file == Head(conf.todo)
           doc == conf.docs[SubSeq(file, 1, Len(file) - 1)]
           r == merge(conf.obj, doc, <<>>, conf.order)
       IN  IF r.ok
           THEN /\ conf' = [conf EXCEPT !.obj = r.tree, !.todo = Tail(conf.todo)]
                /\ UNCHANGED proc
           ELSE /\ conf' = [conf EXCEPT !.obj = r.tree, !.err = r.err]
                /\ proc' = "raised"
    /\ UNCHANGED <<platform, cwd, environ, call, obj, fs, stack, log, exitCode>>

\* for k in obj.get('environment', {}): os.environ[k] = str(env[k]); the
\* name env is not defined in main, so the first pass of the loop raises.
MainExportEnvironment ==
    /\ proc = "init"
    /\ conf.pc = "merge"
    /\ conf.todo = <<>>
    /\ IF DOMAIN EnvironmentSection(conf.obj) # {}
       THEN /\ proc' = "raised"
            /\ conf' = [conf EXCEPT !.pc = "export"]
       ELSE /\ conf' = [conf EXCEPT !.pc = "loaded"]
            /\ UNCHANGED proc
    /\ UNCHANGED <<platform, cwd, environ, call, obj, fs, stack, log, exitCode>>

NextConfig ==
    \/ MainFindConfigFiles
    \/ MainMergeConfig
    \/ MainExportEnvironment

SpecConfig == InitConfig /\ [][NextConfig]_vars

\* ------------------------------------------------------------ properties

\* The positions of the log written since the frame f was entered.
Since(f) == (f.base + 1)..Len(log)

Frames == {stack[k] : k \in DOMAIN stack}

\* C1: when build ran configure and configure returned a non-zero code, build
\* returns a non-zero code and does not invoke cmake --build.
C1_BuildStopsWhenConfigureFails ==
    \A f \in Frames :
       f.cmd = "build" =>
          \A i \in Since(f) :
             (log[i].ev = "return" /\ log[i].path = <<"configure">>
                /\ log[i].code # 0)
             => /\ \A j \in Since(f) : log[j].ev # "cmake_build"
                /\ f.pc = "return" => f.val # 0

\* C5: a conan install step that returns a non-zero code is the last step of
\* its configure call: the next thing that happens is configure returning
\* that code, with no cmake step and no environment descriptor loaded.
C5_ConanFailureStopsConfigure ==
    \A i \in DOMAIN log :
       (log[i].ev = "conan_install" /\ log[i].code # 0)
       => IF i = Len(log)
          THEN /\ Top.cmd = "configure"
               /\ Top.pc = "return"
               /\ Top.val = log[i].code
          ELSE /\ log[i + 1].ev \in {"return", "exit"}
               /\ log[i + 1].path = <<"configure">>
               /\ log[i + 1].code = log[i].code

C5_Witness ==
    \E i \in DOMAIN log :
       /\ log[i].ev = "conan_install"
       /\ log[i].code # 0
       /\ i < Len(log)
       /\ log[i + 1] = Ev("return", <<"configure">>, log[i].code)

\* C6: configure returns the conan install code when a manifest was found
\* and that code is non-zero; else the cmake configure code when
\* CMakeLists.txt exists; else 0, and then no external tool was invoked.
C6_ConfigureResult ==
    \A f \in Frames :
       (f.cmd = "configure" /\ f.pc = "return") =>
          LET chain == ManifestChain(f.build_dir,
                          ObjGet("/project/conan-dir", obj["/project/root-dir"]))
              manifest == \E k \in 1..Len(chain) : chain[k] \in fs.present
              cmake_file == ObjGet("/project/cmake-dir", obj["/project/root-dir"])
                              \o <<"CMakeLists.txt">>
              conan == {i \in Since(f) : log[i].ev = "conan_install"}
              cmake == {i \in Since(f) : log[i].ev = "cmake_configure"}
          IN  /\ manifest <=> Cardinality(conan) = 1
              /\ Cardinality(cmake) <= 1
              /\ IF \E i \in conan : log[i].code # 0
                 THEN /\ \A i \in conan : f.val = log[i].code
                      /\ cmake = {}
                 ELSE IF cmake_file \in fs.present
                 THEN /\ Cardinality(cmake) = 1
                      /\ \A i \in cmake : f.val = log[i].code
                 ELSE /\ f.val = 0
                      /\ cmake = {}
                      /\ ~manifest =>
                            \A i \in Since(f) : log[i].ev \in {"return", "exit"}

C6_Witness ==
    \E f \in Frames :
       /\ f.cmd = "configure"
       /\ f.pc = "return"
       /\ f.val # 0
       /\ \E i, j \in Since(f) :
             /\ log[i] = Ev("conan_install", f.conan_file, 0)
             /\ log[j] = Ev("cmake_configure", f.build_dir, f.val)

\* C7: unless skip_build is set, test invokes build before it scans or runs
\* anything, and when build returns a non-zero code test returns that code
\* without scanning for or running any test executable.
C7_TestStopsWhenBuildFails ==
    \A f \in Frames :
       (f.cmd = "test" /\ ~f.o.skip_build) =>
          LET built == {i \in Since(f) :
                          log[i].ev = "return" /\ log[i].path = <<"build">>}
          IN  /\ \A j \in Since(f) :
                    log[j].ev \in {"scan", "run_test"}
                    => \E i \in built : i < j
              /\ \A i \in built :
                    log[i].code # 0 =>
                       /\ f.pc \in {"after_build", "return"}
                       /\ f.pc = "return" => f.val = log[i].code
                       /\ \A j \in Since(f) :
                             j > i => /\ log[j].ev = "exit"
                                      /\ log[j].code = log[i].code

C7_Witness ==
    \E f \in Frames :
       /\ f.cmd = "test"
       /\ f.pc = "return"
       /\ f.val # 0
       /\ log[Len(log)] = Ev("return", <<"build">>, f.val)

\* The sum of the absolute values of the codes logged at the positions S.
RECURSIVE SumAbsCodes(_)
SumAbsCodes(S) ==
    IF S = {} THEN 0
    ELSE LET i == CHOOSE x \in S : TRUE
             c == log[i].code
         IN  (IF c < 0 THEN 0 - c ELSE c) + SumAbsCodes(S \ {i})

\* C8: when test ran at least one executable, it returns the sum of the
\* absolute values of the exit codes of the executables it ran.
C8_TestResultIsSumOfAbs ==
    \A f \in Frames :
       f.cmd = "test" =>
          LET ran == {i \in Since(f) : log[i].ev = "run_test"}
          IN  ran # {} =>
                 /\ f.pc = "run" => f.ret = SumAbsCodes(ran)
                 /\ f.pc = "return" =>
                       /\ f.val = SumAbsCodes(ran)
                       /\ f.val = 0 <=> \A i \in ran : log[i].code = 0

C8_Witness ==
    \E f \in Frames :
       /\ f.cmd = "test"
       /\ f.pc = "return"
       /\ f.val = 2
       /\ \E i, j \in Since(f) :
             /\ log[i].ev = "run_test" /\ log[i].code = 1
             /\ log[j].ev = "run_test" /\ log[j].code = 0 - 1

\* C9: when the scan finds no executable (for debug: none with debug info),
\* test and debug return a non-zero code through return_or_exit, nothing is
\* run and nothing is raised.
C9_NoExecutablesIsNonZero ==
    \A f \in Frames :
       (/\ f.cmd \in {"test", "debug"}
        /\ \E i \in Since(f) : log[i].ev = "scan"
        /\ f.found = <<>>)
       => /\ f.pc = "return"
          /\ f.val # 0
          /\ proc # "raised"
          /\ \A i \in Since(f) : log[i].ev \notin {"run_test", "rr_record"}

C9_Witness ==
    \E f \in Frames :
       /\ f.cmd = "debug"
       /\ f.pc = "return"
       /\ f.found = <<>>
       /\ log[Len(log)].ev = "scan"
       /\ proc = "running"

\* C10: test returns 0 only if at least one executable was run and every
\* executable run returned 0.
C10_ZeroOnlyIfSomeTestRan ==
    \A f \in Frames :
       (f.cmd = "test" /\ f.pc = "return" /\ f.val = 0) =>
          /\ \E i \in Since(f) : log[i].ev = "run_test"
          /\ \A i \in Since(f) : log[i].ev = "run_test" => log[i].code = 0

\* The frame of the tag_for_release command, when that is the command run.
TagFrames == {stack[k] : k \in {k \in DOMAIN stack : k = 1
                                   /\ stack[k].cmd = "tag_for_release"}}

VersionFile == RootDir \o <<"version.txt">>

\* C2: a tag is written only when the tag did not exist, the tree was clean
\* or dirty_ok was set, the version.txt check passed or did not apply, the
\* nested test returned 0, every hook found returned 0, and dry_run is not set.
C2_TagOnlyAfterAllChecks ==
    \A i \in DOMAIN log :
       log[i].ev = "git_tag" =>
          \E f \in TagFrames :
             /\ log[i].path = f.o.tag
             /\ f.o.tag \notin f.tags
             /\ f.o.dirty_ok \/ f.output = <<>>
             /\ \/ VersionFile \notin fs.present
                \/ f.o.bump_version
                \/ f.o.strict /\ f.o.tag = f.version_txt_tag
                \/ /\ ~f.o.strict
                   /\ Len(f.version_txt_tag) <= Len(f.o.tag)
                   /\ SubSeq(f.o.tag, 1, Len(f.version_txt_tag)) = f.version_txt_tag
             /\ \E j \in 1..(i - 1) : log[j] = Ev("return", <<"test">>, 0)
             /\ \A j \in DOMAIN log :
                   (log[j].ev = "return" /\ log[j].path = <<"test">>)
                   => log[j].code = 0
             /\ \A k \in DOMAIN f.found :
                   \E j \in 1..(i - 1) : log[j] = Ev("hook", f.found[k], 0)
             /\ \A j \in DOMAIN log : log[j].ev = "hook" => log[j].code = 0
             /\ ~f.o.dry_run

C2_Witness ==
    \E f \in TagFrames :
       /\ \E i \in DOMAIN log : log[i].ev = "git_tag"
       /\ f.found # <<>>
       /\ VersionFile \in fs.present
       /\ ~f.o.bump_version
       /\ ~f.o.dirty_ok

\* C3: when a precondition fails (the tag exists; the tree is dirty without
\* dirty_ok; version.txt does not agree with the tag), tag_for_release
\* returns a non-zero code and nothing else has been invoked: no test, no
\* hook, no build or dependency step.
C3_FailedPreconditionStopsFirst ==
    \A f \in TagFrames :
       (\/ f.o.tag \in f.tags
        \/ ~f.o.dirty_ok /\ f.output # <<>>
        \/ /\ VersionFile \in fs.present
           /\ ~f.o.bump_version
           /\ IF f.o.strict
              THEN f.o.tag # f.version_txt_tag
              ELSE ~(/\ Len(f.version_txt_tag) <= Len(f.o.tag)
                     /\ SubSeq(f.o.tag, 1, Len(f.version_txt_tag))
                          = f.version_txt_tag))
       => /\ f.pc = "return"
          /\ f.val # 0
          /\ Len(stack) = 1
          /\ proc # "raised"
          /\ proc = "exited" => exitCode # 0
          /\ \A i \in DOMAIN log : log[i].ev = "exit"

C3_Witness ==
    \E f \in TagFrames :
       /\ proc = "exited"
       /\ exitCode = 1
       /\ ~f.o.strict
       /\ f.version_txt_tag = <<"2">>
       /\ log = <<Ev("exit", <<"tag_for_release">>, 1)>>

\* C4: a run of tag_for_release that ends in a reported failure (a non-zero
\* return) has not rewritten version.txt and has made no commit.
C4_FailureLeavesVersionFileAlone ==
    \A f \in TagFrames :
       f.pc = "return"
       => \A i \in DOMAIN log :
             log[i].ev \notin {"write_version", "git_add", "git_commit"}

\* The frame of the install command, when that is the command run.
InstallFrames == {stack[k] : k \in {k \in DOMAIN stack : k = 1
                                       /\ stack[k].cmd = "install"}}

\* The positions since f was entered at which cmd returned to its caller.
Returns(f, cmd) ==
    {i \in Since(f) : log[i].ev = "return" /\ log[i].path = <<cmd>>}

\* C11: install without a tag returns 0 exactly when the configure and the
\* build it invoked both returned 0, and a non-zero code otherwise, for
\* negative codes too. (The configure install invokes is the first to return.)
C11_InstallAggregatesCodes ==
    \A f \in InstallFrames :
       (f.o.tag = <<>> /\ f.pc = "return") =>
          \A i \in Returns(f, "configure"), j \in Returns(f, "build") :
             (\A k \in Returns(f, "configure") : i <= k)
             => (f.val = 0 <=> (log[i].code = 0 /\ log[j].code = 0))

\* C12: install with a tag ends with a non-zero code whenever the configure
\* or the build it ran after the checkout returned a non-zero code.
C12_TaggedInstallReportsFailure ==
    \A f \in InstallFrames :
       (/\ f.o.tag # <<>>
        /\ proc = "exited"
        /\ \E i \in Returns(f, "configure") \cup Returns(f, "build") :
              log[i].code # 0)
       => exitCode # 0

\* C13: in install with a tag, the CMakeLists.txt handed to the cmake
\* configure step is the clone's, and a dependency manifest handed to conan
\* install lies in the build directory or in the clone, never in the checkout
\* recorded as /project/root-dir.
C13_TaggedInstallUsesClone ==
    \A f \in InstallFrames :
       f.o.tag # <<>> =>
          \A i \in Since(f) :
             /\ log[i].ev = "cmake_configure"
                => (CloneDir \o <<"CMakeLists.txt">>) \in fs.present
             /\ log[i].ev = "conan_install"
                => LET dir == SubSeq(log[i].path, 1, Len(log[i].path) - 1)
                   IN  dir \in {f.build_dir, CloneDir}

\* C14: install with a tag leaves the working directory as it was at entry
\* whenever it returns (clone failed, checkout failed, build done); after a
\* failed checkout it returns 1 and neither configure nor build is invoked.
C14_TaggedInstallRestoresDir ==
    \A f \in InstallFrames :
       f.o.tag # <<>> =>
          /\ f.pc \in {"return", "done"} => (cwd = f.odir /\ cwd \in StartDirs)
          /\ \A i \in Since(f) :
                (log[i].ev = "git_checkout" /\ log[i].code # 0)
                => /\ f.pc = "return"
                   /\ f.val = 1
                   /\ Len(stack) = 1
                   /\ \A j \in Since(f) :
                         j > i => log[j] = Ev("exit", <<"install">>, 1)

C14_Witness ==
    \E f \in InstallFrames :
       /\ proc = "exited"
       /\ exitCode = 1
       /\ cwd = RootDir \o <<"sub">>
       /\ \E i \in Since(f) : log[i].ev = "git_checkout" /\ log[i].code # 0

\* The key paths at which the documents a and b disagree: a scalar against
\* a different scalar, or a dict against a scalar.
Conflicts(a, b) ==
    LET both == DOMAIN a \cap DOMAIN b
    IN  {<<k>> : k \in {k \in both :
                          /\ ~(a[k].kind = "map" /\ b[k].kind = "map")
                          /\ a[k] # b[k]}}
        \cup UNION { {<<k, j>> : j \in {j \in DOMAIN a[k].m \cap DOMAIN b[k].m :
                                           a[k].m[j] # b[k].m[j]}} :
                     k \in {k \in both :
                              a[k].kind = "map" /\ b[k].kind = "map"} }

\* The key-wise union of a and b, for documents that agree.
UnionOf(a, b) ==
    [k \in DOMAIN a \cup DOMAIN b |->
        IF k \notin DOMAIN b THEN a[k]
        ELSE IF k \notin DOMAIN a THEN b[k]
        ELSE IF a[k].kind = "map" /\ b[k].kind = "map"
        THEN [kind |-> "map", v |-> "",
              m |-> [j \in DOMAIN a[k].m \cup DOMAIN b[k].m |->
                       IF j \in DOMAIN a[k].m THEN a[k].m[j] ELSE b[k].m[j]]]
        ELSE a[k]]

Dotted(p) == IF Len(p) = 1 THEN <<p[1]>> ELSE <<p[1], ".", p[2]>>

\* C15: merge(dest, src) succeeds exactly when no key path holds unequal
\* scalars or a dict against a scalar; it then yields the key-wise union of
\* dest and src (absent keys copied, dicts merged recursively, equal values
\* left alone); otherwise it fails with a conflict error naming the dotted
\* path of a conflicting key.
C15_MergeIsUnionOrConflict ==
    (call.fn = "merge" /\ call.done) =>
       LET r == call.result
           C == Conflicts(call.a, call.b)
       IN  /\ r.ok <=> C = {}
           /\ r.ok => r.tree = UnionOf(call.a, call.b)
           /\ ~r.ok => \E p \in C : r.err = <<"Conflict at">> \o Dotted(p)

C15_Witness ==
    /\ call.fn = "merge"
    /\ call.done
    /\ ~call.result.ok
    /\ call.result.err = <<"Conflict at", "project", ".", "K">>
    /\ "environment" \in DOMAIN call.result.tree
    /\ "environment" \notin DOMAIN call.a

\* Merging the documents of ds in order, the first being the destination.
MergeAll(ds, order) ==
    LET Upto[i \in 1..Len(ds)] ==
            IF i = 1 THEN [ok |-> TRUE, tree |-> ds[1], err |-> <<>>]
            ELSE IF ~Upto[i - 1].ok THEN Upto[i - 1]
            ELSE merge(Upto[i - 1].tree, ds[i], <<>>, order)
    IN  Upto[Len(ds)]

SameOutcome(r1, r2) ==
    /\ r1.ok <=> r2.ok
    /\ r1.ok => r1.tree = r2.tree

\* C16: merge(a, b) and merge(b, a) yield equal trees when the key sets are
\* disjoint and both fail when a key path holds unequal scalars; and merging
\* a, b and any third document succeeds or fails, with the same tree on
\* success, whatever the order.
C16_MergeOrderIndependent ==
    (call.fn = "merge" /\ call.done) =>
       LET a == call.a
           b == call.b
           ab == call.result
           ba == merge(b, a, <<>>, call.order)
       IN  /\ DOMAIN a \cap DOMAIN b = {} =>
                 (ab.ok /\ ba.ok /\ ab.tree = ba.tree)
           /\ Conflicts(a, b) # {} => (~ab.ok /\ ~ba.ok)
           /\ SameOutcome(ab, ba)
           /\ \A c \in Docs :
                 LET abc == MergeAll(<<a, b, c>>, call.order)
                 IN  /\ SameOutcome(abc, MergeAll(<<a, c, b>>, call.order))
                     /\ SameOutcome(abc, MergeAll(<<b, a, c>>, call.order))
                     /\ SameOutcome(abc, MergeAll(<<b, c, a>>, call.order))
                     /\ SameOutcome(abc, MergeAll(<<c, a, b>>, call.order))
                     /\ SameOutcome(abc, MergeAll(<<c, b, a>>, call.order))

C16_Witness ==
    /\ call.fn = "merge"
    /\ call.done
    /\ call.result.ok
    /\ DOMAIN call.a = {"project"}
    /\ DOMAIN call.b = {"environment"}
    /\ DOMAIN call.result.tree = TopKeys

InitCalls ==
    /\ platform \in {"Linux", "Windows"}
    /\ obj = [k \in {} |-> NoPath]
    /\ fs = [present |-> {}, absent |-> {}]
    /\ stack = <<>>
    /\ log = <<>>
    /\ proc = "init"
    /\ exitCode = 0
    /\ cwd = RootDir
    /\ conf = NoConf
    /\ call \in MergeCalls \cup FindCalls \cup EnvCalls \cup ConanCalls
                \cup ScanCalls
    /\ environ = IF call.fn \in {"load_environment", "load_conan_environment",
                                 "load_conan_buildinfo"}
                 THEN call.ambient
                 ELSE NoEnviron

NextCalls ==
    \/ CallMerge
    \/ CallFindFilesAbove
    \/ CallLoadEnvironment
    \/ CallLoadConanEnvironment
    \/ CallLoadConanBuildinfo
    \/ CallScan

SpecCalls == InitCalls /\ [][NextCalls]_vars

\* C18: find_files_above returns each match once, farthest ancestor first
\* and start directory last; with max_height = k exactly the matches of the
\* start directory and its k nearest ancestors (k = 0: the start directory
\* alone), with no cap those of every directory up to the root.
C18_FindFilesAboveOrderAndCap ==
    (call.fn = "find_files_above" /\ call.done) =>
       LET r == call.result
           n == Len(call.path)
           within == {d \in call.has :
                        call.max_height = <<>> \/ n - Len(d) <= call.max_height[1]}
       IN  /\ {r[i] : i \in DOMAIN r} = {d \o <<ConfigName>> : d \in within}
           /\ \A i, j \in DOMAIN r : i < j => Len(r[i]) < Len(r[j])

C18_Witness ==
    /\ call.fn = "find_files_above"
    /\ call.done
    /\ call.max_height = <<1>>
    /\ call.path = <<"dir", "dir", "dir">>
    /\ Dir(1) \in call.has /\ Dir(2) \in call.has /\ Dir(3) \in call.has
    /\ call.result = << <<"dir", "dir", ".project.yml">>,
                        <<"dir", "dir", "dir", ".project.yml">> >>

\* C17: when a nearer and a farther configuration file both give a value to
\* the same key, loading does not fail on that key, and once both files are
\* merged the tree holds the nearer file's value.
C17_NearerConfigWins ==
    conf.pc \in {"merge", "export", "loaded"} =>
       \A i, j \in DOMAIN conf.config_files :
          i < j =>
             LET far == conf.docs[SubSeq(conf.config_files[i], 1,
                                         Len(conf.config_files[i]) - 1)]
                 near == conf.docs[SubSeq(conf.config_files[j], 1,
                                          Len(conf.config_files[j]) - 1)]
             IN  \A k \in DOMAIN far \cap DOMAIN near :
                    (far[k].kind = "scalar" /\ near[k].kind = "scalar") =>
                       /\ conf.err # <<"Conflict at", k>>
                       /\ conf.todo = <<>> => conf.obj[k] = near[k]

\* C19: once the files are merged, startup goes on without an error and
\* every name of the environment section is in the process environment
\* with the configured value.
C19_EnvironmentSectionExported ==
    (conf.pc \in {"export", "loaded"}) =>
       /\ proc # "raised"
       /\ \A k \in DOMAIN EnvironmentSection(conf.obj) :
             /\ k \in DOMAIN environ
             /\ environ[k] = <<EnvironmentSection(conf.obj)[k].v>>

\* The strings of items, each followed by sep, n times over.
Repeated(items, sep, n) ==
    LET len == Len(items)
        flat == [i \in 1..(n * len) |-> items[((i - 1) % len) + 1] \o <<sep>>]
        Upto[i \in 0..(n * len)] ==
            IF i = 0 THEN <<>> ELSE Upto[i - 1] \o flat[i]
    IN  Upto[n * len]

\* No quote character and no placeholder among the tokens of s.
PlainString(s) ==
    \A i \in DOMAIN s :
       /\ s[i] # Quote
       /\ \A j \in DOMAIN env_var_interp_patterns("PATH") :
             s[i] # env_var_interp_patterns("PATH")[j]

AmbientPath == IF "PATH" \in DOMAIN call.ambient THEN call.ambient["PATH"] ELSE <<>>

\* C20 as stated: after n calls of load_environment with the list value L
\* for PATH, PATH is L's elements joined by the separator, n times over,
\* followed by the separator and the ambient value at the first call.
C20_ListValueExtendsAmbient ==
    (call.fn = "load_environment" /\ call.n > 0 /\ call.env["PATH"].list) =>
       /\ "PATH" \in DOMAIN environ
       /\ environ["PATH"] =
             Repeated(call.env["PATH"].items, env_list_sep, call.n)
                \o AmbientPath

\* C20 amended: the same, for a list and an ambient value that hold no
\* quote character and no self-reference placeholder.
C20_PlainListValueExtendsAmbient ==
    (/\ call.fn = "load_environment"
     /\ call.n > 0
     /\ call.env["PATH"].list
     /\ PlainString(AmbientPath)
     /\ \A i \in DOMAIN call.env["PATH"].items :
           PlainString(call.env["PATH"].items[i]))
    => /\ "PATH" \in DOMAIN environ
       /\ environ["PATH"] =
             Repeated(call.env["PATH"].items, env_list_sep, call.n)
                \o AmbientPath

C20_Witness ==
    /\ call.fn = "load_environment"
    /\ call.n = 2
    /\ platform = "Linux"
    /\ call.env["PATH"].items = << <<"a">>, <<"b">> >>
    /\ call.ambient = [k \in {"PATH"} |-> <<"c">>]
    /\ environ["PATH"] = <<"a", ":", "b", ":", "a", ":", "b", ":", "c">>

\* The value is a scalar that holds a placeholder for PATH.
ScalarWithPlaceholder ==
    /\ call.fn = "load_environment"
    /\ ~call.env["PATH"].list
    /\ ~PlainString(SelectSeq(call.env["PATH"].s, LAMBDA t : t # Quote))

\* C21: for a scalar value holding the placeholder of its own name, a second
\* load_environment with the same input leaves the value the first one set.
C21_PlaceholderLoadIdempotent ==
    (ScalarWithPlaceholder /\ call.n = 2) =>
       environ["PATH"] = load_environment(call.env, call.ambient)["PATH"]

\* The tokens of s with each placeholder of PATH replaced by repl and the
\* quote characters left out.
RECURSIVE Substituted(_, _)
Substituted(s, repl) ==
    IF s = <<>> THEN <<>>
    ELSE (IF \E j \in DOMAIN env_var_interp_patterns("PATH") :
                Head(s) = env_var_interp_patterns("PATH")[j]
          THEN repl
          ELSE IF Head(s) = Quote THEN <<>> ELSE <<Head(s)>>)
         \o Substituted(Tail(s), repl)

\* C22: after load_environment with a scalar value for PATH, PATH holds the
\* value with each placeholder replaced by the separator and the ambient
\* value when PATH was set, and removed when it was not (quotes aside);
\* nothing else of the prior value remains.
C22_PlaceholderReplaced ==
    (call.fn = "load_environment" /\ call.n = 1 /\ ~call.env["PATH"].list) =>
       /\ "PATH" \in DOMAIN environ
       /\ SelectSeq(environ["PATH"], LAMBDA t : t # Quote)
            = Substituted(call.env["PATH"].s,
                 IF "PATH" \in DOMAIN call.ambient
                 THEN <<env_list_sep>>
                        \o SelectSeq(call.ambient["PATH"], LAMBDA t : t # Quote)
                 ELSE <<>>)

C22_Witness ==
    /\ ScalarWithPlaceholder
    /\ call.n = 1
    /\ platform = "Linux"
    /\ call.ambient = [k \in {"PATH"} |-> <<"c">>]
    /\ environ["PATH"] = <<"a", ":", "c">>

\* The path handed to a conan loader does not lead to a descriptor: there is
\* no such file, or it is a directory holding no descriptor of the loader.
DescriptorMissing ==
    \/ /\ call.fn = "load_conan_environment"
       /\ \/ call.path.kind = "missing"
          \/ /\ call.path.kind = "dir"
             /\ GlobEnvironment(call.path.files) = {}
    \/ /\ call.fn = "load_conan_buildinfo"
       /\ \/ call.path.kind = "missing"
          \/ /\ call.path.kind = "dir"
             /\ BuildInfoName \notin call.path.files

\* C23: when the path given to load_conan_environment or load_conan_buildinfo
\* does not lead to a descriptor (a missing file, or a directory holding no
\* descriptor), the call raises no error and leaves os.environ as it was.
C23_MissingDescriptorIsNoOp ==
    (DescriptorMissing /\ call.n > 0) =>
        /\ ~call.raised
        /\ environ = call.ambient

\* The entries of a sequence.
Range(seq) == {seq[i] : i \in DOMAIN seq}

\* The file a name of the scanned directory stands for.
Scanned(name) == call.path \o name

\* The name matches one of the patterns of the platform.
MatchesPattern(name) ==
    \E k \in DOMAIN Patterns : FnMatch(name, Patterns[k])

\* What the debug probe says of an entry: on Linux whether `file` reports
\* debug information, elsewhere never.
ProbeReportsDebug(name) ==
    Lower(platform) = "linux" /\ call.tree[name].debug

\* C24: the views of get_list_of_test_executables_in_path: release and debug
\* are disjoint and together hold exactly the entries of all; every entry of
\* all is a regular file that matches a pattern and has the executable bit,
\* so a matching file without it is in no view; and an entry is in debug
\* exactly when the probe reports debug information for it.
C24_ScanViews ==
    (call.fn = "get_list_of_test_executables_in_path" /\ call.done) =>
        LET r == call.result
        IN  /\ Range(r.release) \cap Range(r.debug) = {}
            /\ Range(r.release) \cup Range(r.debug) = Range(r.all)
            /\ Len(r.release) + Len(r.debug) = Len(r.all)
            /\ \A p \in Range(r.all) :
                  \E n \in DOMAIN call.tree :
                     /\ p = Scanned(n)
                     /\ call.tree[n].file
                     /\ MatchesPattern(n)
                     /\ call.tree[n].exe
                     /\ (p \in Range(r.debug)) <=> ProbeReportsDebug(n)
            /\ \A n \in DOMAIN call.tree :
                  (call.tree[n].file /\ MatchesPattern(n) /\ call.tree[n].exe)
                     => Scanned(n) \in Range(r.all)

\* A scan on Linux of a directory with an executable with debug information,
\* one without that matches two patterns, and an executable matching none.
C24_Witness ==
    /\ call.fn = "get_list_of_test_executables_in_path"
    /\ call.done
    /\ platform = "Linux"
    /\ Range(call.result.debug) = {Scanned(<<"a", "Tests">>)}
    /\ Range(call.result.release) = {Scanned(<<"b", "Tests", "Tester">>)}
    /\ Len(call.result.all) = 3
    /\ <<"main">> \in DOMAIN call.tree
    /\ call.tree[<<"main">>].file
    /\ call.tree[<<"main">>].exe

\* What the file p, one of those the command of frame f found, holds.
ContentOf(f, p) ==
    f.digests[CHOOSE k \in DOMAIN f.found : f.found[k] = p]

\* The executions of discovered executables since frame f began.
Executions(f) ==
    {i \in Since(f) : log[i].ev \in {"run_test", "rr_record"}}

\* C25: test and debug run no two files with the same content within one
\* run, also when several paths, or several patterns matching one path,
\* lead to the same binary.
C25_RunsEachContentOnce ==
    \A f \in Frames :
       f.cmd \in {"test", "debug"} =>
          \A i \in Executions(f), j \in Executions(f) :
             i < j => ContentOf(f, log[i].path) # ContentOf(f, log[j].path)

\* The steps that are handed the resolved build directory.
BuildDirEvents ==
    {"load_conan_buildinfo", "load_conan_environment", "cmake_configure",
     "cmake_build", "scan"}

\* The build directory of the run: /project/build-dir when the shared
\* context holds one, else root/build-<mode>-<platform> for the mode of the
\* outermost command.
RunBuildDir ==
    IF "/project/build-dir" \in DOMAIN obj
    THEN obj["/project/build-dir"]
    ELSE get_build_dir(stack[1].o.release, obj["/project/root-dir"])

\* C26: within one run every configure, build and test of the call chain
\* resolves the same build directory: /project/build-dir of the shared
\* context when it is set (from the command line, or by a calling command),
\* otherwise root/build-<mode>-<platform>, which differs between debug and
\* release.
C26_OneBuildDirPerRun ==
    stack # <<>> =>
        /\ \A f \in Frames :
              (f.cmd \in {"configure", "build", "test"} /\ f.build_dir # NoPath)
                 => f.build_dir = RunBuildDir
        /\ \A i \in DOMAIN log :
              log[i].ev \in BuildDirEvents => log[i].path = RunBuildDir
        /\ get_build_dir(TRUE, obj["/project/root-dir"])
              # get_build_dir(FALSE, obj["/project/root-dir"])

\* A release test without --build-dir on Linux: configure, build and the
\* scan of test all used root/build-release-linux.
C26_Witness ==
    /\ stack # <<>>
    /\ Top.cmd = "test"
    /\ Top.o.release
    /\ Top.pc = "run"
    /\ "/project/build-dir" \notin DOMAIN obj
    /\ LET Used(e) ==
               \E i \in DOMAIN log :
                  log[i] = Ev(e, RootDir \o <<"build", "release", "linux">>, 0)
       IN  Used("cmake_configure") /\ Used("cmake_build") /\ Used("scan")

\* C27: an override a command makes for its own call does not leak: when
\* test, invoked by another command, returns to its caller, ctx.obj holds
\* what it held when test began (the return itself leaves ctx.obj alone).
C27_OverrideDoesNotLeak ==
    \A f \in Frames :
       (f.cmd = "test" /\ f.depth = 1 /\ f.pc = "return")
          => Snapshot(obj) = f.ctx

\* C28: a command dispatched as the outermost call ends the process with
\* its result code; a command invoked by another command does not end the
\* process with its result: the caller receives the code as the value of
\* ctx.invoke and goes on. Only the outermost command ends the process.
C28_OutermostExitsNestedReturns ==
    [][ /\ (proc = "running" /\ stack # <<>> /\ Top.pc = "return") =>
           IF Len(stack) = 1
           THEN /\ proc' = "exited"
                /\ exitCode' = Top.val
           ELSE /\ proc' = "running"
                /\ Len(stack') = Len(stack) - 1
                /\ stack'[Len(stack')].cmd = stack[Len(stack) - 1].cmd
                /\ stack'[Len(stack')].invoked = Top.val
                /\ stack'[Len(stack')].pc \notin {"begin", "return"}
        /\ (proc # "exited" /\ proc' = "exited") => Len(stack) = 1
      ]_vars

\* A test whose build, invoked by it, returned 1: test went on, and as the
\* outermost command ended the process with 1.
C28_Witness ==
    /\ proc = "exited"
    /\ exitCode = 1
    /\ Len(log) >= 2
    /\ log[Len(log)] = Ev("exit", <<"test">>, 1)
    /\ log[Len(log) - 1] = Ev("return", <<"build">>, 1)

\* C29: get ends with a non-zero code when the project was retrieved from
\* none of the remotes, and with 0 when it was cloned or copied.
C29_GetReportsFailure ==
    \A f \in Frames :
       (f.cmd = "get" /\ proc = "exited") =>
          IF f.success_remote # <<>> THEN exitCode = 0 ELSE exitCode # 0

\* C30: running configure, setup_special_files or link_compiler_commands
\* again after a run of the same command that succeeded does not fail
\* because what the command creates (the build directory, the link) is
\* there already.
C30_RerunDoesNotFailOnExisting ==
    (/\ call.fn = "runs"
     /\ call.last_ok
     /\ stack # <<>>
     /\ stack[1].cmd = call.last_cmd) =>
        \A i \in DOMAIN log : log[i].ev # "FileExistsError"

\* The external steps of the build pipeline.
BuildSteps == {"conan_install", "cmake_configure", "cmake_build"}

\* C31: within one run of a command no external build step that returned a
\* non-zero code is invoked again, and the dependency-install step (conan
\* install) is invoked at most once.
C31_NoRetry ==
    /\ \A i, j \in DOMAIN log :
          (/\ i < j
           /\ log[i].ev \in BuildSteps
           /\ log[i].code # 0) => log[j].ev # log[i].ev
    /\ \A i, j \in DOMAIN log :
          (log[i].ev = "conan_install" /\ log[j].ev = "conan_install") => i = j

\* Event e for path p is in the log before position i.
Preceded(i, e, p) ==
    \E j \in 1..(i - 1) : log[j].ev = e /\ log[j].path = p

\* C32: every cmake configure step and every cmake --build step comes after
\* load_conan_buildinfo and load_conan_environment for the same build
\* directory in the same run, and every test executable that is run comes
\* after a load_conan_environment.
C32_EnvironmentBeforeTools ==
    \A i \in DOMAIN log :
       /\ log[i].ev \in {"cmake_configure", "cmake_build"} =>
             /\ Preceded(i, "load_conan_buildinfo", log[i].path)
             /\ Preceded(i, "load_conan_environment", log[i].path)
       /\ log[i].ev = "run_test" =>
             \E j \in 1..(i - 1) : log[j].ev = "load_conan_environment"

\* build is at line 292 and takes its decision in this step.
BuildDecides ==
    /\ Len(stack) > 0
    /\ Top.cmd = "build"
    /\ Top.pc = "begin"
    /\ stack' # stack

\* The configured-state marker of a build frame.
Marker(f) == f.build_dir \o <<"CMakeCache.txt">>

\* C33: build invokes configure exactly when run_configure is set or
\* CMakeCache.txt is absent from the build directory; and no conan install
\* step and no cmake configure step is invoked during a build that was not
\* forced while its marker is there.
C33_BuildConfiguresWhenNeeded ==
    /\ [][BuildDecides =>
            LET f == stack'[Len(stack)]
                invoked == /\ Len(stack') = Len(stack) + 1
                           /\ stack'[Len(stack')].cmd = "configure"
                           /\ stack'[Len(stack')].pc = "begin"
            IN  invoked <=> (Top.o.run_configure \/ Marker(f) \notin fs'.present)
         ]_vars
    /\ [][\A i \in (Len(log) + 1)..Len(log') :
             log'[i].ev \in {"conan_install", "cmake_configure"} =>
                \A k \in DOMAIN stack :
                   (stack[k].cmd = "build" /\ stack[k].pc # "begin") =>
                      \/ stack[k].o.run_configure
                      \/ Marker(stack[k]) \notin fs.present
         ]_vars

\* A build that found its marker, was not forced and ran cmake --build with
\* no configure step before it.
C33_Witness ==
    /\ Len(stack) = 1
    /\ Top.cmd = "build"
    /\ Top.pc = "return"
    /\ ~Top.o.run_configure
    /\ Marker(Top) \in fs.present
    /\ \E i \in DOMAIN log : log[i].ev = "cmake_build"
    /\ \A i \in DOMAIN log :
          log[i].ev \notin {"conan_install", "cmake_configure", "return"}

\* C34: when test has gone through its executables, every discovered
\* executable whose path matches the filter had its content run: some
\* executable with the same content was run in that test.
C34_MatchingContentIsRun ==
    \A f \in Frames :
       (f.cmd = "test" /\ f.pc = "return" /\ f.found # <<>>) =>
          \A k \in DOMAIN f.found :
             (f.o.match = <<>> \/ Contains(f.found[k], f.o.match)) =>
                \E i \in Executions(f) :
                   ContentOf(f, log[i].path) = f.digests[k]

\* C35: a merge that ends in a conflict leaves dest as it was before the
\* call: no key of src has been copied or merged into it.
C35_ConflictLeavesDestUnchanged ==
    (call.fn = "merge" /\ call.done /\ ~call.result.ok) =>
       call.result.tree = call.a

\* C36: when a test that did not skip the build starts its executables, the
\* environment descriptors of the build directory have been applied to the
\* process environment at most once since the test began.
C36_DescriptorAppliedOnce ==
    \A f \in Frames :
       (f.cmd = "test" /\ ~f.o.skip_build /\ f.pc = "run") =>
          \A i \in Since(f), j \in Since(f) :
             (/\ log[i].ev = "load_conan_environment"
              /\ log[j].ev = "load_conan_environment"
              /\ log[i].path = log[j].path) => i = j

====
